---- MODULE Spec2Model ----
(***************************************************************************)
(* The MePRAM ETL (scripts/MepramETL.py, scripts/DatabaseHandler.py,       *)
(* scripts/Queries.py) as a state machine.                                 *)
(*                                                                         *)
(* db is the target store: one field per table, each table a sequence of   *)
(* rows in insertion order.  Tables with a generated key (visit_occurrence,*)
(* condition_occurrence, observation, drug_exposure, episode) keep that    *)
(* key implicit: the key of a row is its position.  Only the columns the   *)
(* queries of Queries.py read back, or that carry a reference to another   *)
(* row, are kept.                                                          *)
(*                                                                         *)
(* A run of main() is the sequence ExportForm, VisitRecord*, EndForm for   *)
(* each form in turn, then UpdateQualityCheck and PopulateFactRelationship.*)
(* NextRun starts main() again on the same store.                          *)
(***************************************************************************)
EXTENDS Integers, Sequences, FiniteSets, TLC

\* ------------------------------------------------------------------ bounds
NumSubjects == 2
MaxRecords == 3
MaxRuns == 2

\* --------------------------------------------------------------- constants
\* Python's None and SQL's NULL.  Generated keys and synthetic ids start at 1.
NULL == 0

SourceIds == 1..NumSubjects

\* Mutant of ETL_forms_dict: the dependent forms come first.
ETL_forms_dict_dependents_first ==
  << "sintomas", "signos", "comorbilidad", "paciente", "tratamiento_empirico",
     "hemocultivo_de_urgencias", "otros_cultivos_en_urgencias", "sepsis",
     "factores_de_riesgo_de_infeccion_por_bacteria_multi", "infecciones_previas",
     "colonizaciones_previas", "tratamiento_antibiotico_previo" >>

\* The keys of ETL_forms_dict, in the order of the dictionary, which is the
\* order main() iterates them in.
ETL_forms_dict ==
  << "paciente", "sintomas", "signos", "comorbilidad", "sepsis",
     "factores_de_riesgo_de_infeccion_por_bacteria_multi", "infecciones_previas",
     "colonizaciones_previas", "tratamiento_antibiotico_previo",
     "tratamiento_empirico", "hemocultivo_de_urgencias",
     "otros_cultivos_en_urgencias" >>

\* The forms whose transformations write the tables kept in db.
ModelledForms ==
  { "paciente", "sintomas", "sepsis", "infecciones_previas",
    "colonizaciones_previas", "tratamiento_empirico" }

\* The iteration of main() over ETL_forms_dict, restricted to those forms.
ETL_forms == SelectSeq(ETL_forms_dict, LAMBDA form_name : form_name \in ModelledForms)

is_significant_form(form_name) ==
  form_name \in { "signos", "factores_de_riesgo_de_infeccion_por_bacteria_multi",
                  "comorbilidad" }

\* What a record holds, as far as the transformation's control flow sees it:
\*   "empty"    every field after record_id is NaN (or "0", which none of
\*              the forms kept here treats as a value);
\*   "complete" every lookup the transformation makes for it succeeds;
\*   "raises_before_writes"  a lookup made before the form's first INSERT
\*              raises (ValueError of RosettaParser / get_rxnorm_from_atc);
\*   "raises_after_writes"   a lookup made after the form's linked facts were
\*              inserted raises (an unmapped paciente_residencia, an unmapped
\*              field after foco, an unmapped resistance phenotype).
Contents(form_name) ==
  IF form_name \in { "sintomas", "tratamiento_empirico" }
    THEN { "empty", "complete", "raises_before_writes" }
    ELSE { "empty", "complete", "raises_before_writes", "raises_after_writes" }

Rows(form_name) ==
  [ record_id : SourceIds, content : Contents(form_name) ]

VARIABLES
  db,                 \* the target store
  pc,                 \* where main() stands
  form_idx,           \* index into ETL_forms of the form being processed
  rows_left,          \* rows of redcap_data not yet iterated
  exported,           \* rows exported so far, over all runs
  current_record_id,  \* main()'s current_record_id
  processed,          \* main()'s processed flag
  runs,               \* runs of main() started so far
  visited,            \* what the latest loop iteration did with its row
  failed,             \* (record_id, form) pairs whose load_data raised in this run
  calls,              \* source ids passed to populate_person_origin_table, in order
  returned,           \* source id -> the person_id it was last given
  concept_ancestor,   \* cdm.concept_ancestor: (descendant, ancestor) pairs
  ancestor_query,     \* the latest has_desired_ancestor call and its result
  signos_pair,        \* the latest pair of signos columns processed, and its writes
  form_record,        \* the latest record transformed on its own, and its writes
  rosetta,            \* the rows of the rosetta file
  rosetta_call,       \* the latest lookup in the rosetta file and its outcome
  engines             \* two instances of main() on one store: where each stands

vars ==
  << db, pc, form_idx, rows_left, exported, current_record_id, processed,
     runs, visited, failed, calls, returned, concept_ancestor, ancestor_query,
     signos_pair, form_record, rosetta, rosetta_call, engines >>

\* The state of main().
main_vars ==
  << db, pc, form_idx, rows_left, exported, current_record_id, processed,
     runs, visited, failed >>

\* What main() leaves alone: the state of the specifications of single
\* operations further down.
others ==
  << calls, returned, concept_ancestor, ancestor_query, signos_pair,
     form_record, rosetta, rosetta_call, engines >>

\* ------------------------------------------------------------ store access
\* execute_query for an INSERT: the row is appended unless the statement
\* fails, in which case the exception is swallowed and None returned.
Insert(table, row, ok) == IF ok THEN Append(table, row) ELSE table

\* Mutant of InsertedId: the key is handed back although the statement
\* failed.
InsertedId_whatever(table, ok) == Len(table) + 1

\* execute_query(..., return_id=True): the generated key, None on failure.
InsertedId(table, ok) == IF ok THEN Len(table) + 1 ELSE NULL

is_person_in_db(po, person_source_value) ==
  \E i \in 1..Len(po) : po[i].source_person_id = person_source_value

\* SELECT person_id FROM person_origin WHERE source_person_id = ...: the
\* first matching row (result.fetchone()[0]).
SelectPersonId(po, person_source_value) ==
  LET hits == { i \in 1..Len(po) : po[i].source_person_id = person_source_value }
  IN  IF hits = {} THEN NULL
      ELSE po[CHOOSE i \in hits : \A j \in hits : i <= j].person_id

SetMax(S) == CHOOSE m \in S : \A x \in S : x <= m

\* Mutant of MaxPersonId: SELECT MIN(person_id) in place of SELECT MAX.
MinPersonId(po) ==
  IF po = << >> THEN NULL
  ELSE CHOOSE m \in { po[i].person_id : i \in 1..Len(po) } :
         \A i \in 1..Len(po) : m <= po[i].person_id

MaxPersonId(po) ==
  IF po = << >> THEN NULL ELSE SetMax({ po[i].person_id : i \in 1..Len(po) })

\* Mutant of populate_person_origin_table: the is_person_in_db branch is
\* lost, every call allocates.
populate_always_allocates(po, person_source_value, ok) ==
  LET next_id == IF po = << >> THEN 1 ELSE MaxPersonId(po) + 1
  IN  [ po |-> Insert(po, [ source_person_id |-> person_source_value,
                            person_id |-> next_id ], ok),
        person_id |-> next_id ]

\* populate_person_origin_table: [po |-> the table afterwards,
\* person_id |-> the value returned].
populate_person_origin_table(po, person_source_value, ok) ==
  IF is_person_in_db(po, person_source_value)
    THEN [ po |-> po, person_id |-> SelectPersonId(po, person_source_value) ]
    ELSE LET max_person_id == MaxPersonId(po) IN
         IF max_person_id # NULL
           THEN [ po |-> Insert(po, [ source_person_id |-> person_source_value,
                                      person_id |-> max_person_id + 1 ], ok),
                  person_id |-> max_person_id + 1 ]
           ELSE [ po |-> Insert(po, [ source_person_id |-> person_source_value,
                                      person_id |-> 1 ], ok),
                  person_id |-> 1 ]

is_form_processed(tracking, source_person_id, form_name) ==
  Cardinality({ i \in 1..Len(tracking) :
                  /\ tracking[i].source_person_id = source_person_id
                  /\ tracking[i].form_name = form_name }) > 0

update_form_tracking(tracking, source_person_id, form_name, ok) ==
  Insert(tracking, [ source_person_id |-> source_person_id,
                     form_name |-> form_name,
                     quality_check |-> "unset" ], ok)

\* ------------------------------------------------------------ reads
\* get_visit_occurrence_query: the key of the person's first visit row.
get_visit_occurrence(visits, person_id) ==
  LET hits == { i \in 1..Len(visits) : visits[i].person_id = person_id }
  IN  IF hits = {} THEN NULL ELSE CHOOSE i \in hits : \A j \in hits : i <= j

\* get_episode_id: the key of the person's first episode row.
get_episode_id(episodes, person_id) ==
  LET hits == { i \in 1..Len(episodes) : episodes[i].person_id = person_id }
  IN  IF hits = {} THEN NULL ELSE CHOOSE i \in hits : \A j \in hits : i <= j

\* get_condition_occurrence_id_from_episode / get_drug_exposure_id_from_episode:
\* event_id of the first episode_event row of one of the person's episodes
\* carrying the role field_concept.
get_event_id_from_episode(d, person_id, field_concept) ==
  LET relevant_episode ==
        { e \in 1..Len(d.episode) : d.episode[e].person_id = person_id }
      hits == { i \in 1..Len(d.episode_event) :
                  /\ d.episode_event[i].episode_id \in relevant_episode
                  /\ d.episode_event[i].episode_event_field_concept_id = field_concept }
  IN  IF hits = {} THEN NULL
      ELSE d.episode_event[CHOOSE i \in hits : \A j \in hits : i <= j].event_id

\* get_valid_patients_for_relationship_table
get_valid_patients_for_relationship_table(d, form_name_1, form_name_2) ==
  { d.person_origin[p].person_id : p \in
      { p \in 1..Len(d.person_origin) :
          /\ is_form_processed(d.etl_tracking,
                               d.person_origin[p].source_person_id, form_name_1)
          /\ is_form_processed(d.etl_tracking,
                               d.person_origin[p].source_person_id, form_name_2)
          /\ \E e \in 1..Len(d.episode) :
                /\ d.episode[e].person_id = d.person_origin[p].person_id
                /\ d.episode[e].episode_object_concept_id = 432250 } }

\* ------------------------------------------------ Relationship Builder
FactRelationship(d1, f1, d2, f2, rel) ==
  [ domain_concept_id_1 |-> d1, fact_id_1 |-> f1,
    domain_concept_id_2 |-> d2, fact_id_2 |-> f2,
    relationship_concept_id |-> rel ]

\* load_fact_relationship_1 / load_fact_relationship_2 of each branch of
\* populate_fact_relationship_table: the row one call links two facts with.
load_fact_relationship_1(relationship_type, fact_1, fact_2) ==
  IF relationship_type = "infectious_disease_episode"
    THEN FactRelationship("Condition", fact_1, "Drug", fact_2, "Treated with")
  ELSE IF relationship_type = "previous_infection"
    THEN FactRelationship("Condition", fact_1, "Observation", fact_2,
                          "Has causative agent (SNOMED)")
    ELSE FactRelationship("Observation", fact_1, "Observation", fact_2,
                          "Has causative agent (SNOMED)")

load_fact_relationship_2(relationship_type, fact_1, fact_2) ==
  IF relationship_type = "infectious_disease_episode"
    THEN FactRelationship("Drug", fact_2, "Condition", fact_1, "Treats")
  ELSE IF relationship_type = "previous_infection"
    THEN FactRelationship("Observation", fact_2, "Condition", fact_1,
                          "Causative agent of (SNOMED)")
    ELSE FactRelationship("Observation", fact_2, "Observation", fact_1,
                          "Causative agent of (SNOMED)")

\* Mutant of load_fact_relationship_2: the second row repeats the forward
\* relationship concept.
load_fact_relationship_2_forward(relationship_type, fact_1, fact_2) ==
  [ load_fact_relationship_2(relationship_type, fact_1, fact_2) EXCEPT
      !.relationship_concept_id =
         load_fact_relationship_1(relationship_type, fact_1, fact_2)
           .relationship_concept_id ]

\* The second INSERT of one link.
second_relationship_row(relationship_type, fact_1, fact_2) ==
  load_fact_relationship_2(relationship_type, fact_1, fact_2)

\* The two execute_query calls that link one pair of facts.  fails holds the
\* statements that fail in this call.
link_facts(fr, relationship_type, fact_1, fact_2, fails) ==
  LET fr1 == Insert(fr, load_fact_relationship_1(relationship_type, fact_1, fact_2),
                    "fact_relationship_1" \notin fails)
  IN  Insert(fr1, second_relationship_row(relationship_type, fact_1, fact_2),
             "fact_relationship_2" \notin fails)

\* The loop "for person_id in valid_patients" of the branch
\* infectious_disease_episode, in ascending person_id.
RECURSIVE link_valid_patients(_, _, _, _)
link_valid_patients(d, fr, valid_patients, fails) ==
  IF valid_patients = {} THEN fr
  ELSE LET person_id == CHOOSE p \in valid_patients : \A q \in valid_patients : p <= q
           condition_id == get_event_id_from_episode(d, person_id, 1147129)
           drug_id == get_event_id_from_episode(d, person_id, 1147096)
       IN  link_valid_patients(
             d,
             link_facts(fr, "infectious_disease_episode", condition_id, drug_id, fails),
             valid_patients \ { person_id }, fails)

\* populate_fact_relationship_table: the fact_relationship table afterwards.
populate_fact_relationship_table(d, relationship_type, previous_condition, previous_organism, fails) ==
  IF relationship_type = "infectious_disease_episode"
    THEN link_valid_patients(
           d, d.fact_relationship,
           get_valid_patients_for_relationship_table(d, "sepsis", "tratamiento_empirico"),
           fails)
    ELSE link_facts(d.fact_relationship, relationship_type, previous_condition,
                    previous_organism, fails)

\* ---------------------------------------------- per-form transformations
\* Each returns [db |-> the store afterwards, raised |-> whether it raised].

\* load_visit_ocurrence_table: the INSERT ... RETURNING of the visit; the
\* method has no return statement, so its caller receives None.
load_visit_ocurrence_table(visits, person_id, ok) ==
  [ table |-> Insert(visits, [ person_id |-> person_id ], ok), visit_id |-> NULL ]

process_form_paciente(d, content, person_id, fails) ==
  IF content = "raises_before_writes" THEN [ db |-> d, raised |-> TRUE ]
  ELSE LET v == load_visit_ocurrence_table(d.visit_occurrence, person_id,
                                           "visit_occurrence" \notin fails)
       IN  [ db |-> [ d EXCEPT !.visit_occurrence = v.table ],
             raised |-> (content = "raises_after_writes") ]

\* The branch element_name == "foco" of sepsis_insert_condition_or_measurement.
sepsis_insert_foco(d, person_id, visit_id, fails) ==
  LET condition_ok == "condition_occurrence" \notin fails
      episode_ok == "episode" \notin fails
      condition_id == InsertedId(d.condition_occurrence, condition_ok)
      episode_id == InsertedId(d.episode, episode_ok)
  IN  [ d EXCEPT
          !.condition_occurrence =
             Insert(@, [ person_id |-> person_id, visit_occurrence_id |-> visit_id ],
                    condition_ok),
          !.episode =
             Insert(@, [ person_id |-> person_id,
                         episode_object_concept_id |-> 432250 ], episode_ok),
          !.episode_event =
             Insert(@, [ episode_id |-> episode_id, event_id |-> condition_id,
                         episode_event_field_concept_id |-> 1147129 ],
                    "episode_event" \notin fails) ]

\* get_fecha_ingreso_query: whether the store holds the admission date of
\* the person.  process_form_paciente writes that observation right after
\* the visit, so the person has one when it has a visit row.
has_fecha_ingreso(d, person_id) ==
  \E i \in 1..Len(d.visit_occurrence) : d.visit_occurrence[i].person_id = person_id

\* process_form_sintomas: a symptom without a concept raises, and so does
\* the subtraction from an admission date that is None.
process_form_sintomas(d, content, person_id, fails) ==
  IF content = "raises_before_writes" \/ ~has_fecha_ingreso(d, person_id)
    THEN [ db |-> d, raised |-> TRUE ]
    ELSE [ db |-> [ d EXCEPT !.condition_occurrence =
                      Insert(@, [ person_id |-> person_id,
                                  visit_occurrence_id |->
                                    get_visit_occurrence(d.visit_occurrence, person_id) ],
                             "condition_occurrence" \notin fails) ],
           raised |-> FALSE ]

process_form_sepsis(d, content, person_id, fails) ==
  IF content = "raises_before_writes" THEN [ db |-> d, raised |-> TRUE ]
  ELSE [ db |-> sepsis_insert_foco(
                  d, person_id, get_visit_occurrence(d.visit_occurrence, person_id),
                  fails),
         raised |-> (content = "raises_after_writes") ]

\* process_form_infecciones_previas (relationship_type "previous_infection",
\* the infection is a Condition) and process_form_colonizaciones_previas
\* ("previous_colonization", the colonization is an Observation).
process_form_previas(d, relationship_type, content, person_id, fails) ==
  IF content = "raises_before_writes" THEN [ db |-> d, raised |-> TRUE ]
  ELSE
    LET fact_ok == IF relationship_type = "previous_infection"
                     THEN "condition_occurrence" \notin fails
                     ELSE "observation" \notin fails
        d1 == IF relationship_type = "previous_infection"
                THEN [ d EXCEPT !.condition_occurrence =
                         Insert(@, [ person_id |-> person_id,
                                     visit_occurrence_id |-> NULL ], fact_ok) ]
                ELSE [ d EXCEPT !.observation =
                         Insert(@, [ person_id |-> person_id,
                                     observation_event_id |-> NULL ], fact_ok) ]
        condition_id == IF relationship_type = "previous_infection"
                          THEN InsertedId(d.condition_occurrence, fact_ok)
                          ELSE InsertedId(d.observation, fact_ok)
        moo_ok == "observation" \notin fails
        moo_in_culture_id == InsertedId(d1.observation, moo_ok)
        d2 == [ d1 EXCEPT !.observation =
                  Insert(@, [ person_id |-> person_id,
                              observation_event_id |-> NULL ], moo_ok) ]
    IN  IF content = "raises_after_writes"
          THEN [ db |-> [ d2 EXCEPT !.observation =
                            Insert(@, [ person_id |-> person_id,
                                        observation_event_id |-> moo_in_culture_id ],
                                   moo_ok) ],
                 raised |-> TRUE ]
          ELSE [ db |-> [ d2 EXCEPT !.fact_relationship =
                            populate_fact_relationship_table(
                              d2, relationship_type, condition_id,
                              moo_in_culture_id, fails) ],
                 raised |-> FALSE ]

process_form_tratamiento_empirico(d, content, person_id, fails) ==
  IF content = "raises_before_writes" THEN [ db |-> d, raised |-> TRUE ]
  ELSE
    LET visit_id == get_visit_occurrence(d.visit_occurrence, person_id)
        episode_id == get_episode_id(d.episode, person_id)
        drug_ok == "drug_exposure" \notin fails
        atb_id == InsertedId(d.drug_exposure, drug_ok)
    IN  [ db |-> [ d EXCEPT
                     !.drug_exposure =
                        Insert(@, [ person_id |-> person_id,
                                    visit_occurrence_id |-> visit_id ], drug_ok),
                     !.episode_event =
                        Insert(@, [ episode_id |-> episode_id, event_id |-> atb_id,
                                    episode_event_field_concept_id |-> 1147096 ],
                               "episode_event" \notin fails) ],
          raised |-> FALSE ]

\* load_data: resolve the subject, then dispatch on the form name.
\* [db, raised, person_id].
load_data(d, form_name, data_row, fails) ==
  LET po == populate_person_origin_table(d.person_origin, data_row.record_id,
                                         "person_origin" \notin fails)
      d1 == [ d EXCEPT !.person_origin = po.po ]
      r == CASE form_name = "paciente" ->
                  process_form_paciente(d1, data_row.content, po.person_id, fails)
             [] form_name = "sintomas" ->
                  process_form_sintomas(d1, data_row.content, po.person_id, fails)
             [] form_name = "sepsis" ->
                  process_form_sepsis(d1, data_row.content, po.person_id, fails)
             [] form_name = "infecciones_previas" ->
                  process_form_previas(d1, "previous_infection", data_row.content,
                                       po.person_id, fails)
             [] form_name = "colonizaciones_previas" ->
                  process_form_previas(d1, "previous_colonization", data_row.content,
                                       po.person_id, fails)
             [] form_name = "tratamiento_empirico" ->
                  process_form_tratamiento_empirico(d1, data_row.content,
                                                    po.person_id, fails)
  IN  [ db |-> r.db, raised |-> r.raised, person_id |-> po.person_id ]

\* ------------------------------------------------------------------ main()
EmptyDb ==
  [ person_origin |-> << >>, etl_tracking |-> << >>, visit_occurrence |-> << >>,
    condition_occurrence |-> << >>, observation |-> << >>, drug_exposure |-> << >>,
    episode |-> << >>, episode_event |-> << >>, fact_relationship |-> << >> ]

NoRow == [ record_id |-> NULL, form_name |-> "", outcome |-> "none" ]

NoQuery == [ desc_concept_id |-> NULL, ancestor_concept_id |-> NULL, result |-> FALSE ]

\* pandas' NaN in a column of categorical codes.
NaN == "nan"

NoPair ==
  [ element1_name |-> "", element1_value |-> NULL,
    element2_name |-> "", element2_value |-> NaN, writes |-> << >> ]

NoRecord == [ form_name |-> "", outcome |-> "none", writes |-> << >> ]

\* An instance of main() before its first row.
IdleEngine ==
  [ pc |-> "row", record_id |-> NULL, max_person_id |-> NULL, person_id |-> NULL,
    rows |-> 0, loaded |-> {} ]

NoEngines == << >>

NoLookup ==
  [ method |-> "", variable |-> "", branch |-> "", value |-> "",
    raised |-> FALSE, result |-> "" ]

\* The skip test of the row loop: is_empty_or_zero for the other forms,
\* is_completely_empty for the significant ones.
is_skipped(form_name, data_row) ==
  \/ ~is_significant_form(form_name) /\ data_row.content = "empty"
  \/ is_significant_form(form_name) /\ data_row.content = "empty"

\* Mutant of on_row_exception: the exception leaves the loop and ends main().
on_row_exception_aborts(position) == "aborted"

\* What the handler "except Exception" of the row loop does with main()'s
\* position: the error is logged and the loop goes on.
on_row_exception(position) == position

\* Mutant of skip_processed: the tracker is not consulted.
skip_never(tracking, record_id, form_name) == FALSE

\* The check that guards load_data in the row loop.
skip_processed(tracking, record_id, form_name) ==
  is_form_processed(tracking, record_id, form_name)

\* One iteration of "for row in redcap_data.itertuples(...)":
\* [db, current_record_id, processed, outcome, person_id, pc].
row_iteration(d, cur, proc, form_name, data_row, fails) ==
  IF is_skipped(form_name, data_row)
    THEN [ db |-> d, current_record_id |-> cur, processed |-> proc,
           outcome |-> "empty", person_id |-> NULL, pc |-> "rows" ]
  ELSE
    LET changed == data_row.record_id # cur
        tracking1 == IF changed /\ cur # NULL /\ proc
                       THEN update_form_tracking(d.etl_tracking, cur, form_name,
                                                 "etl_tracking" \notin fails)
                       ELSE d.etl_tracking
        d1 == [ d EXCEPT !.etl_tracking = tracking1 ]
        cur1 == data_row.record_id
        proc1 == IF changed THEN FALSE ELSE proc
    IN  IF skip_processed(tracking1, cur1, form_name)
          THEN [ db |-> d1, current_record_id |-> cur1, processed |-> proc1,
                 outcome |-> "already_processed", person_id |-> NULL, pc |-> "rows" ]
          \* load_data is evaluated once: r is the element of a singleton.
          ELSE CHOOSE result \in
                 { IF r.raised
                     THEN [ db |-> r.db, current_record_id |-> cur1, processed |-> proc1,
                            outcome |-> "raised", person_id |-> r.person_id,
                            pc |-> on_row_exception("rows") ]
                     ELSE [ db |-> r.db, current_record_id |-> cur1, processed |-> TRUE,
                            outcome |-> "loaded", person_id |-> r.person_id,
                            pc |-> "rows" ] :
                   r \in { load_data(d1, form_name, data_row, fails) } } : TRUE

\* form_field.split(":")[0]: a string "form:field" is kept as its two parts.
split_form_name(form_field) == form_field[1]

\* The (source_person_id, form_name) pairs for which update_quality_check
\* sends its UPDATE.
quality_updates(invalid_data_dict) ==
  UNION { { << source_person_id,
               split_form_name(invalid_data_dict[source_person_id][k]) >> :
              k \in 1..Len(invalid_data_dict[source_person_id]) } :
          source_person_id \in DOMAIN invalid_data_dict }

\* Mutant of update_quality_check: the UPDATE has lost "AND form_name =".
update_quality_check_every_form(tracking, invalid_data_dict) ==
  [ i \in 1..Len(tracking) |->
      IF \E u \in quality_updates(invalid_data_dict) :
           tracking[i].source_person_id = u[1]
        THEN [ tracking[i] EXCEPT !.quality_check = "invalid" ]
        ELSE tracking[i] ]

\* update_quality_check: etl_tracking after the UPDATEs.
update_quality_check(tracking, invalid_data_dict) ==
  [ i \in 1..Len(tracking) |->
      IF << tracking[i].source_person_id, tracking[i].form_name >>
           \in quality_updates(invalid_data_dict)
        THEN [ tracking[i] EXCEPT !.quality_check = "invalid" ]
        ELSE tracking[i] ]

\* The "form:field" strings of a report about the field named field.
FormFields(field) == { << ETL_forms[f], field >> : f \in 1..Len(ETL_forms) }

\* The reports filter_data may hand over: an empty dictionary, or one subject
\* with one failed field, with two of one form, or with one of a form and
\* one of tratamiento_empirico.
InvalidReports ==
  { << >> }
  \cup { [ x \in { s } |-> << e >> ] : s \in SourceIds, e \in FormFields("a") }
  \cup { [ x \in { s } |-> << e, << e[1], "b" >> >> ] :
           s \in SourceIds, e \in FormFields("a") }
  \cup { [ x \in { s } |-> << e, << "tratamiento_empirico", "b" >> >> ] :
           s \in SourceIds, e \in FormFields("a") }

\* Where the form loop goes after form number idx.
AfterForm(idx) == IF idx < Len(ETL_forms) THEN "export" ELSE "quality"

Init ==
  /\ db = EmptyDb
  /\ pc = "export"
  /\ form_idx = 1
  /\ rows_left = 0
  /\ exported = 0
  /\ current_record_id = NULL
  /\ processed = FALSE
  /\ runs = 1
  /\ visited = NoRow
  /\ failed = {}
  /\ calls = << >>
  /\ returned = [ s \in SourceIds |-> NULL ]
  /\ concept_ancestor = {}
  /\ ancestor_query = NoQuery
  /\ signos_pair = NoPair
  /\ form_record = NoRecord
  /\ rosetta = << >>
  /\ rosetta_call = NoLookup
  /\ engines = NoEngines

\* exporter.export_form and the top of the form loop: an empty export skips
\* the form.
ExportForm ==
  /\ pc = "export"
  /\ \E n \in 0..(MaxRecords - exported) :
       IF n = 0
         THEN /\ pc' = AfterForm(form_idx)
              /\ form_idx' = IF form_idx < Len(ETL_forms) THEN form_idx + 1 ELSE form_idx
              /\ UNCHANGED << rows_left, exported, current_record_id, processed >>
         ELSE /\ pc' = "rows"
              /\ rows_left' = n
              /\ exported' = exported + n
              /\ current_record_id' = NULL
              /\ processed' = FALSE
              /\ UNCHANGED form_idx
  /\ visited' = NoRow
  /\ UNCHANGED << db, runs, failed, others >>

\* The body of the row loop for the next row of redcap_data.
VisitRecordWith(fails) ==
  /\ pc = "rows"
  /\ rows_left > 0
  /\ \E data_row \in Rows(ETL_forms[form_idx]) :
       \* r is the one result of the iteration.
       \E r \in { row_iteration(db, current_record_id, processed,
                                ETL_forms[form_idx], data_row, fails) } :
           /\ db' = r.db
           /\ current_record_id' = r.current_record_id
           /\ processed' = r.processed
           /\ pc' = r.pc
           /\ visited' = [ record_id |-> data_row.record_id,
                           form_name |-> ETL_forms[form_idx],
                           outcome |-> r.outcome ]
           /\ failed' = IF r.outcome = "raised"
                          THEN failed \cup { << data_row.record_id, ETL_forms[form_idx] >> }
                          ELSE failed
  /\ rows_left' = rows_left - 1
  /\ UNCHANGED << form_idx, exported, runs, others >>

VisitRecord == VisitRecordWith({})

\* After the row loop: the tracker row of the last subject, then the next form.
EndFormWith(fails) ==
  /\ pc = "rows"
  /\ rows_left = 0
  /\ db' = IF current_record_id # NULL /\ processed
             THEN [ db EXCEPT !.etl_tracking =
                      update_form_tracking(@, current_record_id, ETL_forms[form_idx],
                                           "etl_tracking" \notin fails) ]
             ELSE db
  /\ pc' = AfterForm(form_idx)
  /\ form_idx' = IF form_idx < Len(ETL_forms) THEN form_idx + 1 ELSE form_idx
  /\ visited' = NoRow
  /\ UNCHANGED << rows_left, exported, current_record_id, processed, runs,
                  failed, others >>

EndForm == EndFormWith({})

UpdateQualityCheck ==
  /\ pc = "quality"
  /\ \E invalid_data \in InvalidReports :
       db' = [ db EXCEPT !.etl_tracking = update_quality_check(@, invalid_data) ]
  /\ pc' = "relationship"
  /\ UNCHANGED << form_idx, rows_left, exported, current_record_id, processed,
                  runs, visited, failed, others >>

PopulateFactRelationshipWith(fails) ==
  /\ pc = "relationship"
  /\ db' = [ db EXCEPT !.fact_relationship =
               populate_fact_relationship_table(db, "infectious_disease_episode",
                                                NULL, NULL, fails) ]
  /\ pc' = "finished"
  /\ UNCHANGED << form_idx, rows_left, exported, current_record_id, processed,
                  runs, visited, failed, others >>

PopulateFactRelationship == PopulateFactRelationshipWith({})

\* main() is started again on the same store.
NextRun ==
  /\ pc = "finished"
  /\ runs < MaxRuns
  /\ runs' = runs + 1
  /\ pc' = "export"
  /\ form_idx' = 1
  /\ rows_left' = 0
  /\ current_record_id' = NULL
  /\ processed' = FALSE
  /\ failed' = {}
  /\ visited' = NoRow
  /\ UNCHANGED << db, exported, others >>

Next ==
  \/ ExportForm
  \/ VisitRecord
  \/ EndForm
  \/ UpdateQualityCheck
  \/ PopulateFactRelationship
  \/ NextRun

Spec == Init /\ [][Next]_vars

\* main() is a sequential program: it takes its next step whenever it has one.
FairSpec == Spec /\ WF_vars(Next)

\* ------------------------------------------------------- Identity Registry
\* populate_person_origin_table on its own: any sequence of calls, for any
\* source ids, which is every sequence the runs of main() can make.
NumCallers == 3
MaxCalls == 4

CallerIds == 1..NumCallers

InitRegistry ==
  /\ db = EmptyDb
  /\ pc = "export"
  /\ form_idx = 1
  /\ rows_left = 0
  /\ exported = 0
  /\ current_record_id = NULL
  /\ processed = FALSE
  /\ runs = 1
  /\ visited = NoRow
  /\ failed = {}
  /\ calls = << >>
  /\ returned = [ s \in CallerIds |-> NULL ]
  /\ concept_ancestor = {}
  /\ ancestor_query = NoQuery
  /\ signos_pair = NoPair
  /\ form_record = NoRecord
  /\ rosetta = << >>
  /\ rosetta_call = NoLookup
  /\ engines = NoEngines

\* One call; oks holds the outcomes the INSERT may have.
ResolveWith(oks) ==
  /\ Len(calls) < MaxCalls
  /\ \E s \in CallerIds, ok \in oks :
       LET r == populate_person_origin_table(db.person_origin, s, ok)
       IN  /\ db' = [ db EXCEPT !.person_origin = r.po ]
           /\ calls' = Append(calls, s)
           /\ returned' = [ returned EXCEPT ![s] = r.person_id ]
  /\ UNCHANGED << pc, form_idx, rows_left, exported, current_record_id, processed,
                  runs, visited, failed, concept_ancestor, ancestor_query,
                  signos_pair, form_record, rosetta, rosetta_call, engines >>

\* The store executes every statement.
Resolve == ResolveWith({ TRUE })

\* The INSERT may fail: execute_query logs the error and returns None.
ResolveF == ResolveWith(BOOLEAN)

SpecRegistry == InitRegistry /\ [][Resolve]_vars

SpecRegistryF == InitRegistry /\ [][ResolveF]_vars

\* C1: any two calls of populate_person_origin_table for the same source id
\* return the same person_id, whatever calls for other source ids come in
\* between, and a call for a source id that is already mapped leaves
\* person_origin as it was and returns the person_id of its row.
C1_RepeatedResolveSame ==
  [][ \A s \in CallerIds :
        /\ returned[s] # NULL => returned'[s] = returned[s]
        /\ ( /\ calls' = Append(calls, s)
             /\ \E i \in 1..Len(db.person_origin) :
                  db.person_origin[i].source_person_id = s )
           => /\ db'.person_origin = db.person_origin
              /\ \E i \in 1..Len(db.person_origin) :
                   /\ db.person_origin[i].source_person_id = s
                   /\ db.person_origin[i].person_id = returned'[s] ]_vars

\* A source id resolved, another one resolved, the first one resolved again.
C1_Witness ==
  /\ Len(calls) >= 3
  /\ calls[3] = calls[1]
  /\ calls[2] # calls[1]
  /\ returned[calls[1]] # NULL
  /\ Len(db.person_origin) = 2

\* The distinct source ids of a call sequence, in first-seen order.
RECURSIVE FirstSeen(_)
FirstSeen(cs) ==
  IF cs = << >> THEN << >>
  ELSE LET before == FirstSeen(SubSeq(cs, 1, Len(cs) - 1))
           last == cs[Len(cs)]
       IN  IF \E i \in 1..Len(before) : before[i] = last
             THEN before ELSE Append(before, last)

\* C2: from an empty person_origin, the k-th distinct source id passed to
\* populate_person_origin_table is given person_id k, its row is the k-th of
\* the table, and every later call for it returns k again.
C2_FirstSeenOrder ==
  LET seen == FirstSeen(calls) IN
  /\ Len(db.person_origin) = Len(seen)
  /\ \A k \in 1..Len(seen) :
       /\ db.person_origin[k] = [ source_person_id |-> seen[k], person_id |-> k ]
       /\ returned[seen[k]] = k

\* Three distinct source ids resolved, then the first one again.
C2_Witness ==
  /\ Len(calls) = 4
  /\ Cardinality({ calls[1], calls[2], calls[3] }) = 3
  /\ calls[4] = calls[1]
  /\ returned[calls[1]] = 1
  /\ returned[calls[3]] = 3

\* C3: the subject mapping is one-to-one whether or not store writes fail:
\* no two source ids share a person_id, neither among the rows of
\* person_origin nor among the values populate_person_origin_table returned.
C3_OneToOne ==
  /\ \A s1, s2 \in CallerIds :
       (s1 # s2 /\ returned[s1] # NULL /\ returned[s2] # NULL)
         => returned[s1] # returned[s2]
  /\ \A i, j \in 1..Len(db.person_origin) :
       i # j => /\ db.person_origin[i].person_id # db.person_origin[j].person_id
                /\ db.person_origin[i].source_person_id
                     # db.person_origin[j].source_person_id

\* ------------------------------------------------------ claims about main()
\* The step is an iteration of the row loop that handed its row to load_data.
Transformed ==
  /\ rows_left' = rows_left - 1
  /\ visited'.outcome \in { "loaded", "raised" }

HasTrackerRow(tracking, record_id, form_name) ==
  \E i \in 1..Len(tracking) :
    /\ tracking[i].source_person_id = record_id
    /\ tracking[i].form_name = form_name

FactTables(d) ==
  << d.visit_occurrence, d.condition_occurrence, d.observation, d.drug_exposure,
     d.episode, d.episode_event, d.fact_relationship >>

\* C4: once etl_tracking holds a row for a (subject, form) pair, no row of
\* that pair is handed to load_data again: the iteration that meets such a
\* row skips it and writes no fact.
C4_ProcessedNeverTransformed ==
  [][ /\ Transformed =>
           ~HasTrackerRow(db.etl_tracking, visited'.record_id, visited'.form_name)
      /\ ( /\ rows_left' = rows_left - 1
           /\ visited'.outcome # "empty"
           /\ HasTrackerRow(db.etl_tracking, visited'.record_id, visited'.form_name) )
         => /\ visited'.outcome = "already_processed"
            /\ FactTables(db') = FactTables(db)
            /\ db'.person_origin = db.person_origin ]_vars

\* A second run meets a row of a pair that an earlier run marked processed.
C4_Witness ==
  /\ runs = 2
  /\ exported = 2
  /\ visited.outcome = "already_processed"
  /\ Len(db.visit_occurrence) = 1

\* C5: a (subject, form) pair one of whose rows raised in this run has no
\* tracker row, also when other rows of the pair were transformed in the run.
C5_FailedStaysUnprocessed ==
  \A p \in failed : ~HasTrackerRow(db.etl_tracking, p[1], p[2])

\* C6: an exception raised by a row's transformation is caught at the row:
\* the row loop keeps its place, and the run goes on through the remaining
\* rows and forms to the quality pass and to the end of the relationship pass.
C6_RecordIsolation ==
  /\ [][ visited'.outcome = "raised" => pc' = "rows" ]_vars
  /\ (visited.outcome = "raised") ~> (pc = "quality")
  /\ (visited.outcome = "raised") ~> (pc = "finished")

\* A row raised while rows of its form were still to come.
C6_Witness ==
  /\ visited.outcome = "raised"
  /\ rows_left > 0

\* The semantic inverse of a relationship concept.
InverseRelationship(rel) ==
  CASE rel = "Treated with" -> "Treats"
    [] rel = "Treats" -> "Treated with"
    [] rel = "Has causative agent (SNOMED)" -> "Causative agent of (SNOMED)"
    [] rel = "Causative agent of (SNOMED)" -> "Has causative agent (SNOMED)"

Mirror(row) ==
  FactRelationship(row.domain_concept_id_2, row.fact_id_2,
                   row.domain_concept_id_1, row.fact_id_1,
                   InverseRelationship(row.relationship_concept_id))

\* The domains and forward concept of each relationship kind.
IsForward(row) ==
  << row.domain_concept_id_1, row.domain_concept_id_2, row.relationship_concept_id >>
    \in { << "Condition", "Drug", "Treated with" >>,
          << "Condition", "Observation", "Has causative agent (SNOMED)" >>,
          << "Observation", "Observation", "Has causative agent (SNOMED)" >> }

\* C7: fact_relationship is a sequence of pairs, a forward row followed by
\* its mirror (domains and facts swapped, inverse concept), and a step that
\* links n pairs of facts adds exactly 2n rows: a transformed
\* infecciones_previas / colonizaciones_previas row links one pair, the
\* final pass one pair per valid patient.
C7_SymmetricPairs ==
  /\ [] /\ Len(db.fact_relationship) % 2 = 0
        /\ \A k \in 1..(Len(db.fact_relationship) \div 2) :
             /\ IsForward(db.fact_relationship[2 * k - 1])
             /\ db.fact_relationship[2 * k] = Mirror(db.fact_relationship[2 * k - 1])
  /\ [][ /\ ( /\ rows_left' = rows_left - 1
              /\ visited'.outcome = "loaded"
              /\ visited'.form_name \in { "infecciones_previas",
                                          "colonizaciones_previas" } )
            => Len(db'.fact_relationship) = Len(db.fact_relationship) + 2
         /\ (pc = "relationship" /\ pc' = "finished")
            => Len(db'.fact_relationship) = Len(db.fact_relationship)
                 + 2 * Cardinality(get_valid_patients_for_relationship_table(
                                     db, "sepsis", "tratamiento_empirico")) ]_vars

\* A previous-infection link and an infectious-disease-episode link are in
\* the table.
C7_Witness ==
  /\ \E i \in 1..Len(db.fact_relationship) :
       db.fact_relationship[i].relationship_concept_id = "Treats"
  /\ \E i \in 1..Len(db.fact_relationship) :
       /\ db.fact_relationship[i].domain_concept_id_1 = "Condition"
       /\ db.fact_relationship[i].domain_concept_id_2 = "Observation"

\* C8: each subject has at most one Visit row.
C8_AtMostOneVisit ==
  \A i, j \in 1..Len(db.visit_occurrence) :
    db.visit_occurrence[i].person_id = db.visit_occurrence[j].person_id => i = j

\* C9: each subject has at most one Episode row.
C9_AtMostOneEpisode ==
  \A i, j \in 1..Len(db.episode) :
    db.episode[i].person_id = db.episode[j].person_id => i = j

\* ------------------------------------------------------- Concept ancestry
\* has_desired_ancestor on its own, over the concept_ancestor relations that
\* can be drawn on a chain of concepts that starts at 4302157 and ends at
\* 4214811, plus one edge that skips the chain's second concept.
NumOtherConcepts == 4

ConceptChain ==
  << 4302157 >> \o [ i \in 1..NumOtherConcepts |-> i ] \o << 4214811 >>

Concepts == { ConceptChain[i] : i \in 1..Len(ConceptChain) }

ConceptEdges ==
  { << ConceptChain[i], ConceptChain[i + 1] >> : i \in 1..(Len(ConceptChain) - 1) }
    \cup { << ConceptChain[1], ConceptChain[3] >> }

\* The recursive CTE AncestorSearch: the ancestor_concept_id column of its
\* rows of the given depth.  The anchor selects the rows of concept_ancestor
\* whose descendant_concept_id is 4302157; the recursive member joins
\* concept_ancestor on the ancestors found one level below.
RECURSIVE AncestorSearch(_, _)
AncestorSearch(rel, depth) ==
  IF depth = 1
    THEN { e[2] : e \in { e \in rel : e[1] = 4302157 } }
    ELSE { e[2] : e \in { e \in rel : e[1] \in AncestorSearch(rel, depth - 1) } }

\* The value execute_query hands back for the query: the recursion stops at
\* "AncestorSearch.depth < 4", the outer SELECT looks for 4214811.  The bind
\* parameters are passed but the query text names none of them.
ancestor_query_result(rel, desc_concept_id, ancestor_concept_id) ==
  IF \E depth \in 1..4 : 4214811 \in AncestorSearch(rel, depth)
    THEN "Yes" ELSE "No"

\* Mutant of has_desired_ancestor: the recursion goes one level further
\* ("AncestorSearch.depth < 5") and the result is compared with 'Yes'.
has_desired_ancestor_depth_5(rel, desc_concept_id, ancestor_concept_id) ==
  \E depth \in 1..5 : 4214811 \in AncestorSearch(rel, depth)

\* return True if has_desired_ancestor == "True" else False
has_desired_ancestor(rel, desc_concept_id, ancestor_concept_id) ==
  ancestor_query_result(rel, desc_concept_id, ancestor_concept_id) = "True"

InitAncestor ==
  /\ db = EmptyDb
  /\ pc = "export"
  /\ form_idx = 1
  /\ rows_left = 0
  /\ exported = 0
  /\ current_record_id = NULL
  /\ processed = FALSE
  /\ runs = 1
  /\ visited = NoRow
  /\ failed = {}
  /\ calls = << >>
  /\ returned = [ s \in SourceIds |-> NULL ]
  /\ concept_ancestor \in SUBSET ConceptEdges
  /\ ancestor_query = NoQuery
  /\ signos_pair = NoPair
  /\ form_record = NoRecord
  /\ rosetta = << >>
  /\ rosetta_call = NoLookup
  /\ engines = NoEngines

\* One call of has_desired_ancestor.
HasDesiredAncestor ==
  /\ \E desc_concept_id, ancestor_concept_id \in Concepts :
       ancestor_query' =
         [ desc_concept_id |-> desc_concept_id,
           ancestor_concept_id |-> ancestor_concept_id,
           result |-> has_desired_ancestor(concept_ancestor, desc_concept_id,
                                           ancestor_concept_id) ]
  /\ UNCHANGED << main_vars, calls, returned, concept_ancestor, signos_pair,
                  form_record, rosetta, rosetta_call, engines >>

SpecAncestor == InitAncestor /\ [][HasDesiredAncestor]_vars

\* The concepts reached from a concept by walking up rel in exactly n steps.
RECURSIVE AncestorsAt(_, _, _)
AncestorsAt(rel, concept, n) ==
  IF n = 0 THEN { concept }
  ELSE { e[2] : e \in { e \in rel : e[1] \in AncestorsAt(rel, concept, n - 1) } }

ReachableWithin(rel, concept, ancestor, n) ==
  \E k \in 1..n : ancestor \in AncestorsAt(rel, concept, k)

\* C10: has_desired_ancestor(descendant, ancestor) is true exactly when
\* ancestor is reached from descendant by walking up concept_ancestor in at
\* most 4 steps.
C10_AncestorWithinFour ==
  ancestor_query.desc_concept_id # NULL =>
    ( ancestor_query.result <=>
        ReachableWithin(concept_ancestor, ancestor_query.desc_concept_id,
                        ancestor_query.ancestor_concept_id, 4) )

MaxVitalOffset == 5

\* The column pairs of the form signos.
SignosPairs ==
  << << "temperatura", "hipotermia_hipertermia" >>,
     << "frec_cardiaca", "taquicardia" >>,
     << "frec_respiratoria", "taquipnea" >>,
     << "tension_arterial", "hipotension" >>,
     << "saturacion_o2", "hipoxemia" >> >>

ContinuousSignos ==
  { "temperatura", "frec_cardiaca", "frec_respiratoria", "tension_arterial",
    "saturacion_o2" }

\* The values a continuous column takes here: those around the value its
\* flag is derived at.
VitalValues(element1_name) ==
  LET centre == CASE element1_name = "temperatura" -> 37
                  [] element1_name = "frec_cardiaca" -> 90
                  [] element1_name = "frec_respiratoria" -> 22
                  [] element1_name = "tension_arterial" -> 100
                  [] element1_name = "saturacion_o2" -> 94
  IN  (centre - MaxVitalOffset)..(centre + MaxVitalOffset)

FlagValues == { NaN, "0", "1", "2" }

SignosWrite(table, source_value, value_as_number, value_source_value) ==
  [ table |-> table, source_value |-> source_value,
    value_as_number |-> value_as_number, value_source_value |-> value_source_value ]

\* Mutant of signos_derive: the respiratory rate is compared with > 22.
signos_derive_strict(element1_name, element1_value) ==
  CASE element1_name = "temperatura" ->
         IF element1_value < 36 THEN "1"
         ELSE IF element1_value > 38 THEN "2" ELSE "0"
    [] element1_name = "frec_cardiaca" -> IF element1_value > 90 THEN "1" ELSE "0"
    [] element1_name = "frec_respiratoria" -> IF element1_value > 22 THEN "1" ELSE "0"
    [] element1_name = "tension_arterial" -> IF element1_value <= 100 THEN "1" ELSE "0"
    [] element1_name = "saturacion_o2" -> IF element1_value <= 94 THEN "1" ELSE "0"
    [] OTHER -> NaN

\* "match element1_name" of signos_insert_measurement_or_condition: the
\* flag derived from int(element1_value).
signos_derive(element1_name, element1_value) ==
  CASE element1_name = "temperatura" ->
         IF element1_value < 36 THEN "1"
         ELSE IF element1_value > 38 THEN "2" ELSE "0"
    [] element1_name = "frec_cardiaca" -> IF element1_value > 90 THEN "1" ELSE "0"
    [] element1_name = "frec_respiratoria" -> IF element1_value >= 22 THEN "1" ELSE "0"
    [] element1_name = "tension_arterial" -> IF element1_value <= 100 THEN "1" ELSE "0"
    [] element1_name = "saturacion_o2" -> IF element1_value <= 94 THEN "1" ELSE "0"
    [] OTHER -> NaN

\* Mutant of signos_derived_table: every derived saturation flag goes to
\* the observation table.
signos_derived_table_saturation(element1_name, derived) ==
  IF element1_name = "saturacion_o2" THEN "observation" ELSE "condition_occurrence"

\* Where the derived flag is written: the observation_query and "return" sit
\* in the else branch of the case saturacion_o2, every other outcome falls
\* through to the condition_query.
signos_derived_table(element1_name, derived) ==
  IF element1_name = "saturacion_o2" /\ derived = "0"
    THEN "observation" ELSE "condition_occurrence"

\* Mutant of signos_insert_measurement_or_condition: a temperature flag
\* without temperature writes its Condition only.
signos_insert_condition_only(element_name, element_value, element1_processed, element1_name, element1_value) ==
  IF element_name \in ContinuousSignos
    THEN << SignosWrite("measurement", element_name, element_value, NaN) >>
  ELSE IF element1_processed /\ element_value = NaN
    THEN LET derived == signos_derive(element1_name, element1_value)
         IN  << SignosWrite(signos_derived_table(element1_name, derived),
                            element_name, NULL, derived) >>
  ELSE IF element_value # NaN
    THEN IF element_name = "hipoxemia" /\ element_value = "0"
           THEN << SignosWrite("observation", element_name, NULL, element_value) >>
           ELSE << SignosWrite("condition_occurrence", element_name, NULL,
                               element_value) >>
  ELSE << >>

\* signos_insert_measurement_or_condition: the rows it inserts, in order.
signos_insert_measurement_or_condition(element_name, element_value, element1_processed, element1_name, element1_value) ==
  IF element_name \in ContinuousSignos
    THEN << SignosWrite("measurement", element_name, element_value, NaN) >>
  ELSE IF ~element1_processed /\ element_name = "hipotermia_hipertermia"
    THEN << SignosWrite("measurement", element_name, NULL, element_value),
            SignosWrite("condition_occurrence", element_name, NULL, element_value) >>
  ELSE IF element1_processed /\ element_value = NaN
    THEN LET derived == signos_derive(element1_name, element1_value)
         IN  << SignosWrite(signos_derived_table(element1_name, derived),
                            element_name, NULL, derived) >>
  ELSE IF element_value # NaN
    THEN IF element_name = "hipoxemia" /\ element_value = "0"
           THEN << SignosWrite("observation", element_name, NULL, element_value) >>
           ELSE << SignosWrite("condition_occurrence", element_name, NULL,
                               element_value) >>
  ELSE << >>

\* The body of "for i in range(0, len(column_names), 2)" of
\* process_form_signos: the rows one pair of columns inserts.
signos_pair_writes(element1_name, element1_value, element2_name, element2_value) ==
  IF element1_value = NULL /\ element2_value = NaN THEN << >>
  ELSE LET element1_processed == element1_value # NULL
           first == IF element1_processed
                      THEN signos_insert_measurement_or_condition(
                             element1_name, element1_value, element1_processed, "", NULL)
                      ELSE << >>
       IN  first \o signos_insert_measurement_or_condition(
                      element2_name, element2_value, element1_processed,
                      element1_name, element1_value)

InitSignos ==
  /\ db = EmptyDb
  /\ pc = "export"
  /\ form_idx = 1
  /\ rows_left = 0
  /\ exported = 0
  /\ current_record_id = NULL
  /\ processed = FALSE
  /\ runs = 1
  /\ visited = NoRow
  /\ failed = {}
  /\ calls = << >>
  /\ returned = [ s \in SourceIds |-> NULL ]
  /\ concept_ancestor = {}
  /\ ancestor_query = NoQuery
  /\ signos_pair = NoPair
  /\ form_record = NoRecord
  /\ rosetta = << >>
  /\ rosetta_call = NoLookup
  /\ engines = NoEngines

\* One pair of columns of one signos record.
ProcessSignosPair ==
  /\ \E i \in 1..Len(SignosPairs) :
       \E element1_value \in VitalValues(SignosPairs[i][1]) \cup { NULL },
          element2_value \in FlagValues :
         signos_pair' =
           [ element1_name |-> SignosPairs[i][1], element1_value |-> element1_value,
             element2_name |-> SignosPairs[i][2], element2_value |-> element2_value,
             writes |-> signos_pair_writes(SignosPairs[i][1], element1_value,
                                           SignosPairs[i][2], element2_value) ]
  /\ UNCHANGED << main_vars, calls, returned, concept_ancestor, ancestor_query,
                  form_record, rosetta, rosetta_call, engines >>

SpecSignos == InitSignos /\ [][ProcessSignosPair]_vars

\* The flag of a vital sign as the thresholds state it.
ExpectedFlag(name, v) ==
  CASE name = "temperatura" -> IF v < 36 THEN "1" ELSE IF v > 38 THEN "2" ELSE "0"
    [] name = "frec_cardiaca" -> IF v > 90 THEN "1" ELSE "0"
    [] name = "frec_respiratoria" -> IF v >= 22 THEN "1" ELSE "0"
    [] name = "tension_arterial" -> IF v <= 100 THEN "1" ELSE "0"
    [] name = "saturacion_o2" -> IF v <= 94 THEN "1" ELSE "0"

\* The flag is absent and the continuous value present.
FlagDerived ==
  /\ signos_pair.element1_value # NULL
  /\ signos_pair.element2_value = NaN

\* The measurement of the continuous value, then one row for the flag.
DerivedWrite == signos_pair.writes[2]

\* C12: when the flag is absent and the continuous value v present, the row
\* written for the flag carries: temperature 1 for v < 36, 2 for v > 38, 0
\* otherwise; heart rate 1 for v > 90; respiratory rate 1 for v >= 22;
\* systolic pressure 1 for v <= 100; saturation 1 for v <= 94; 0 otherwise.
C12_DerivedFlags ==
  FlagDerived =>
    /\ Len(signos_pair.writes) = 2
    /\ signos_pair.writes[1] =
         SignosWrite("measurement", signos_pair.element1_name,
                     signos_pair.element1_value, NaN)
    /\ DerivedWrite.source_value = signos_pair.element2_name
    /\ DerivedWrite.value_source_value =
         ExpectedFlag(signos_pair.element1_name, signos_pair.element1_value)

\* A respiratory rate of 22, on the threshold, with no flag: abnormal.
C12_Witness ==
  /\ FlagDerived
  /\ signos_pair.element1_name = "frec_respiratoria"
  /\ signos_pair.element1_value = 22
  /\ DerivedWrite.value_source_value = "1"

\* C13 as stated: with the hypoxemia flag absent and an abnormal saturation
\* (<= 94), the derived flag is written as an Observation and no Condition
\* is written for the pair.
C13_AbnormalSaturationObservation ==
  ( /\ FlagDerived
    /\ signos_pair.element1_name = "saturacion_o2"
    /\ signos_pair.element1_value <= 94 )
    => /\ \E i \in 1..Len(signos_pair.writes) :
            /\ signos_pair.writes[i].table = "observation"
            /\ signos_pair.writes[i].value_source_value = "1"
       /\ \A i \in 1..Len(signos_pair.writes) :
            signos_pair.writes[i].table # "condition_occurrence"

\* C13 amended: with the hypoxemia flag absent and the saturation present,
\* a normal saturation (> 94) writes the derived flag 0 as an Observation
\* and no Condition; an abnormal one (<= 94) writes the derived flag 1 as a
\* Condition and no Observation.
C13_NormalSaturationObservation ==
  ( FlagDerived /\ signos_pair.element1_name = "saturacion_o2" )
    => /\ Len(signos_pair.writes) = 2
       /\ DerivedWrite =
            IF signos_pair.element1_value > 94
              THEN SignosWrite("observation", "hipoxemia", NULL, "0")
              ELSE SignosWrite("condition_occurrence", "hipoxemia", NULL, "1")
       /\ signos_pair.writes[1].table = "measurement"

\* A saturation of 93 with no flag: a Condition row carrying 1.
C13_Witness ==
  /\ FlagDerived
  /\ signos_pair.element1_name = "saturacion_o2"
  /\ signos_pair.element1_value = 93
  /\ DerivedWrite.table = "condition_occurrence"

\* The rows of a table among the writes of the pair.
SignosRows(table) ==
  { i \in 1..Len(signos_pair.writes) : signos_pair.writes[i].table = table }

\* C24 as stated: a Measurement is written exactly when the continuous
\* value is present; a flag that is present is written once, with its own
\* value, as a Condition or (hypoxemia) an Observation; nothing is written
\* when both are absent.
C24_MeasurementIffContinuous ==
  /\ signos_pair.element1_name # "" =>
       (SignosRows("measurement") # {} <=> signos_pair.element1_value # NULL)
  /\ (signos_pair.element1_name # "" /\ signos_pair.element2_value # NaN) =>
       /\ Cardinality(SignosRows("condition_occurrence")
                      \cup SignosRows("observation")) = 1
       /\ \A i \in SignosRows("condition_occurrence") \cup SignosRows("observation") :
            signos_pair.writes[i].value_source_value = signos_pair.element2_value
  /\ (signos_pair.element1_value = NULL /\ signos_pair.element2_value = NaN) =>
       signos_pair.writes = << >>

\* C24, amended: the continuous value, when present, is written as one
\* Measurement carrying it; when it is absent no Measurement is written,
\* except in the temperature pair, where a flag that is present is also
\* written as a Measurement coded from the flag; a flag that is present is
\* written once with its own value, as an Observation for hypoxemia "0" and
\* as a Condition otherwise; nothing is written when both are absent.
C24_MeasurementOfPair ==
  signos_pair.element1_name # "" =>
    LET flag == signos_pair.element2_value
        coded == signos_pair.element1_value = NULL /\ flag # NaN
                   /\ signos_pair.element2_name = "hipotermia_hipertermia"
        measured == { i \in SignosRows("measurement") :
                        signos_pair.writes[i].source_value
                          = signos_pair.element1_name }
    IN  /\ measured # {} <=> signos_pair.element1_value # NULL
        /\ Cardinality(measured) <= 1
        /\ \A i \in measured :
             signos_pair.writes[i].value_as_number = signos_pair.element1_value
        /\ SignosRows("measurement") \ measured # {} <=> coded
        /\ \A i \in SignosRows("measurement") \ measured :
             /\ signos_pair.writes[i].value_source_value = flag
             /\ signos_pair.writes[i].source_value = "hipotermia_hipertermia"
        /\ flag # NaN =>
             /\ Cardinality(SignosRows("condition_occurrence")
                            \cup SignosRows("observation")) = 1
             /\ \A i \in SignosRows("condition_occurrence")
                          \cup SignosRows("observation") :
                  /\ signos_pair.writes[i].value_source_value = flag
                  /\ signos_pair.writes[i].table = "observation"
                       <=> (signos_pair.element2_name = "hipoxemia" /\ flag = "0")
        /\ (signos_pair.element1_value = NULL /\ flag = NaN) =>
             signos_pair.writes = << >>

\* A temperature flag with no temperature: a coded Measurement and a
\* Condition.
C24_Witness ==
  /\ signos_pair.element1_name = "temperatura"
  /\ signos_pair.element1_value = NULL
  /\ signos_pair.element2_value = "2"
  /\ Len(signos_pair.writes) = 2
  /\ signos_pair.writes[1].table = "measurement"

\* ------------------------------------------------- Records on their own
\* One record of a form taken through the skip test of the row loop and
\* its transformation, on a store where the subject is new to the form.
\* writes holds the rows inserted, in order; a row refers to another by its
\* position in writes.

\* A source value the rosetta file (or atc2rxnorm) has no row for.
Unmapped == "unmapped"

RecordWrite(table, concept, source_value, refs) ==
  [ table |-> table, concept |-> concept, source_value |-> source_value,
    refs |-> refs ]

\* RosettaParser.get_concept_id (or fetch_OMOP_concept_from_db) for a value
\* that has a row: the concept is named after the key it was found under.
Resolved(variable, value) == << variable, value >>

\* A concept id written out in the code.
Fixed(concept_id) == << "concept_id", concept_id >>

\* default_values["microorganismo"]
default_microorganismo == Fixed("4259632")

\* default_values["antimicrobiano"], through fetch_OMOP_concept_from_db.
default_antimicrobiano == Resolved("SNOMED", "895275007")

\* is_empty_or_zero and is_completely_empty of the row loop.
is_empty_or_zero(columns, fields) ==
  \A i \in 1..Len(columns) : fields[columns[i]] \in { NaN, "0" }

is_completely_empty(columns, fields) ==
  \A i \in 1..Len(columns) : fields[columns[i]] = NaN

skips_row(form_name, columns, fields) ==
  \/ ~is_significant_form(form_name) /\ is_empty_or_zero(columns, fields)
  \/ is_significant_form(form_name) /\ is_completely_empty(columns, fields)

\* Columns of the form sepsis, in the order of the filter's list and in the
\* order of the branches of sepsis_insert_condition_or_measurement.
SepsisColumnOrders ==
  { << "foco", "sepsis", "shock_septico" >>, << "sepsis", "shock_septico", "foco" >> }

SepsisFields ==
  { f \in [ { "foco", "sepsis", "shock_septico" } -> { NaN, "0", "1", "3", Unmapped } ] :
      /\ f["foco"] \in { NaN, "3", Unmapped }
      /\ f["sepsis"] # "3"
      /\ f["shock_septico"] # "3" }

\* sepsis_insert_condition_or_measurement for the columns sepsis,
\* shock_septico and foco: [writes, raised].
sepsis_insert_condition_or_measurement(element_name, element_value, writes) ==
  IF element_value = Unmapped THEN [ writes |-> writes, raised |-> TRUE ]
  ELSE IF element_name \in { "sepsis", "shock_septico" }
    THEN [ writes |->
             Append(writes,
                    RecordWrite(IF element_value # "0" THEN "condition_occurrence"
                                                        ELSE "observation",
                                Resolved(element_name, element_value),
                                element_value, << >>)),
           raised |-> FALSE ]
  ELSE LET condition_id == Len(writes) + 1
           episode_id == Len(writes) + 2
       IN  [ writes |->
               writes \o
               << RecordWrite("condition_occurrence",
                              Resolved(element_name, element_value), element_value, << >>),
                  RecordWrite("episode", Fixed("32533"), "432250", << >>),
                  RecordWrite("episode_event", Fixed("1147129"), NaN,
                              << episode_id, condition_id >>) >>,
             raised |-> FALSE ]

\* Mutant of foco_or_default: an empty foco stays empty.
foco_left_empty(element_name, element_value) == element_value

\* if element_name == "foco" and pd.isnull(element_value): element_value = "12"
foco_or_default(element_name, element_value) ==
  IF element_name = "foco" /\ element_value = NaN THEN "12" ELSE element_value

\* The loop over column_names of process_form_sepsis, from column i on.
RECURSIVE sepsis_columns_from(_, _, _, _)
sepsis_columns_from(columns, fields, i, writes) ==
  IF i > Len(columns) THEN [ writes |-> writes, raised |-> FALSE ]
  ELSE LET element_name == columns[i]
           element_value == foco_or_default(element_name, fields[element_name])
       IN  IF element_value = NaN
             THEN sepsis_columns_from(columns, fields, i + 1, writes)
             ELSE LET r == sepsis_insert_condition_or_measurement(
                             element_name, element_value, writes)
                  IN  IF r.raised THEN r
                      ELSE sepsis_columns_from(columns, fields, i + 1, r.writes)

\* One sepsis record through the row loop.
TransformSepsis ==
  /\ \E columns \in SepsisColumnOrders, fields \in SepsisFields :
       LET r == sepsis_columns_from(columns, fields, 1, << >>)
       IN  form_record' =
             IF skips_row("sepsis", columns, fields)
               THEN [ form_name |-> "sepsis", columns |-> columns, fields |-> fields,
                      outcome |-> "empty", writes |-> << >> ]
               ELSE [ form_name |-> "sepsis", columns |-> columns, fields |-> fields,
                      outcome |-> IF r.raised THEN "raised" ELSE "loaded",
                      writes |-> r.writes ]
  /\ UNCHANGED << main_vars, calls, returned, concept_ancestor, ancestor_query,
                  signos_pair, rosetta, rosetta_call, engines >>

\* A sepsis record whose foco is empty.
FocoEmpty ==
  /\ form_record.form_name = "sepsis"
  /\ form_record.fields["foco"] = NaN

\* Exactly one Condition carrying "12", with the Episode and the Episode
\* Event that names both.
FallbackConditionWritten ==
  LET w == form_record.writes
      fallback == { i \in 1..Len(w) : /\ w[i].table = "condition_occurrence"
                                      /\ w[i].source_value = "12" }
  IN  /\ Cardinality(fallback) = 1
      /\ \E i \in fallback, e \in 1..Len(w), ev \in 1..Len(w) :
           /\ w[e].table = "episode"
           /\ w[ev].table = "episode_event"
           /\ w[ev].refs = << e, i >>

\* C14 as stated: every sepsis record with an empty foco gets exactly one
\* Condition carrying "12", with Episode and Episode Event, whatever its
\* other fields hold.
C14_FallbackWhateverOtherFields ==
  FocoEmpty => FallbackConditionWritten

\* A value ahead of foco in the record has no row in the rosetta file.
UnmappedAheadOfFoco ==
  \E i, j \in 1..Len(form_record.columns) :
    /\ i < j
    /\ form_record.columns[j] = "foco"
    /\ form_record.fields[form_record.columns[i]] = Unmapped

\* C14 amended: a sepsis record with an empty foco that is not skipped as
\* empty (some field is neither empty nor "0") gets, unless a field ahead
\* of foco fails to resolve, exactly one Condition carrying "12" with
\* Episode and Episode Event; one whose fields are all empty or "0" is
\* skipped and nothing is written for it.
C14_FallbackWhenTransformed ==
  FocoEmpty =>
    /\ form_record.outcome = "empty"
         <=> \A c \in { "sepsis", "shock_septico" } :
               form_record.fields[c] \in { NaN, "0" }
    /\ form_record.outcome = "empty" => form_record.writes = << >>
    /\ (form_record.outcome # "empty" /\ ~UnmappedAheadOfFoco)
         => FallbackConditionWritten

\* foco is empty, a later field fails to resolve: the fallback Condition
\* was written before the record raised.
C14_Witness ==
  /\ FocoEmpty
  /\ form_record.columns[1] = "foco"
  /\ form_record.outcome = "raised"
  /\ FallbackConditionWritten

\* The records of infecciones_previas and colonizaciones_previas, under the
\* column names of infecciones_previas (fecha_colonizacion,
\* microorganismo_colonizador, bmr_colonizador and fenotipo_resist_colo are
\* their counterparts; colonizaciones_previas has no sindrome_infeccioso).
\* feno is the number of the one feno...___n checkbox that is ticked.
PreviasFields(relationship_type) ==
  { f \in [ fecha_infeccion : { NaN, "2024-01-01" },
            sindrome_infeccioso : { NaN, "1", Unmapped },
            microorganism_infec_prev : { NaN, "112283007" },
            bmr_infec_previa : { NaN, "0", "1" },
            feno : { NaN, "2", Unmapped } ] :
      relationship_type = "previous_colonization" => f.sindrome_infeccioso = NaN }

PreviasColumns ==
  << "fecha_infeccion", "sindrome_infeccioso", "microorganism_infec_prev",
     "bmr_infec_previa", "feno" >>

\* Mutant of moo_concept_id: the default is lost, the concept is always
\* looked up.
moo_concept_id_looked_up(microorganism) == Resolved("SNOMED", microorganism)

\* moo_concept_id: the concept of the organism, the default one when the
\* column is empty.
moo_concept_id(microorganism) ==
  IF microorganism # NaN THEN Resolved("SNOMED", microorganism)
  ELSE default_microorganismo

\* The rows of fact_relationship one call of
\* populate_fact_relationship_table adds, as writes.
relationship_writes(relationship_type, fact_1, fact_2) ==
  LET fr == link_facts(<< >>, relationship_type, fact_1, fact_2, {})
  IN  [ i \in 1..Len(fr) |->
          RecordWrite("fact_relationship",
                      << fr[i].domain_concept_id_1, fr[i].domain_concept_id_2,
                         fr[i].relationship_concept_id >>,
                      NaN, << fr[i].fact_id_1, fr[i].fact_id_2 >>) ]

\* process_form_infecciones_previas / process_form_colonizaciones_previas:
\* [writes, raised].  fecha_ingreso is the date the store holds for the
\* subject, NULL when it holds none.
process_previas_record(relationship_type, fields, fecha_ingreso) ==
  IF fields.fecha_infeccion = NaN /\ fecha_ingreso = NULL
    THEN [ writes |-> << >>, raised |-> TRUE ]
  ELSE IF relationship_type = "previous_infection"
          /\ fields.sindrome_infeccioso = Unmapped
    THEN [ writes |-> << >>, raised |-> TRUE ]
  ELSE
    LET condition ==
          IF relationship_type = "previous_infection"
            THEN RecordWrite("condition_occurrence",
                             Resolved("sindrome_infeccioso",
                                      IF fields.sindrome_infeccioso # NaN
                                        THEN fields.sindrome_infeccioso ELSE "13"),
                             fields.sindrome_infeccioso, << >>)
            ELSE RecordWrite("observation",
                             Resolved("portador_agente_infeccioso", "NONE"),
                             "portador_agente_infeccioso", << >>)
        condition_id == 1
        specimen_id == 2
        culture_id == 3
        moo_in_culture_id == 4
        bmr_id == 5
        upto_organism ==
          << condition,
             RecordWrite("specimen", Resolved("especimen_infecciones_previas", "NONE"),
                         NaN, << >>),
             RecordWrite("measurement", Resolved("cultivo_infecciones_previas", "NONE"),
                         NaN, << specimen_id >>),
             RecordWrite("observation", moo_concept_id(fields.microorganism_infec_prev),
                         fields.microorganism_infec_prev, << culture_id >>) >>
        upto_bmr ==
          IF fields.bmr_infec_previa = "1"
            THEN Append(upto_organism,
                        RecordWrite("observation", Resolved("bmr_infec_previa", "1"),
                                    "1", << moo_in_culture_id >>))
            ELSE upto_organism
        upto_feno ==
          IF fields.bmr_infec_previa = "1" /\ fields.feno # NaN
            THEN Append(upto_bmr,
                        RecordWrite("measurement",
                                    Resolved("feno_resist_infec_prev", fields.feno),
                                    fields.feno, << bmr_id >>))
            ELSE upto_bmr
    IN  IF fields.bmr_infec_previa = "1" /\ fields.feno = Unmapped
          THEN [ writes |-> upto_bmr, raised |-> TRUE ]
          ELSE [ writes |-> upto_feno \o
                            relationship_writes(relationship_type, condition_id,
                                                moo_in_culture_id),
                 raised |-> FALSE ]

\* One infecciones_previas or colonizaciones_previas record through the row
\* loop.
TransformPrevias ==
  /\ \E relationship_type \in { "previous_infection", "previous_colonization" },
        fecha_ingreso \in { NULL, 1 } :
       \E fields \in PreviasFields(relationship_type) :
         LET r == process_previas_record(relationship_type, fields, fecha_ingreso)
             form_name == IF relationship_type = "previous_infection"
                            THEN "infecciones_previas" ELSE "colonizaciones_previas"
             skipped == skips_row(form_name, PreviasColumns, fields)
         IN  form_record' =
               [ form_name |-> form_name, relationship_type |-> relationship_type,
                 fields |-> fields, fecha_ingreso |-> fecha_ingreso,
                 outcome |-> IF skipped THEN "empty"
                             ELSE IF r.raised THEN "raised" ELSE "loaded",
                 writes |-> IF skipped THEN << >> ELSE r.writes ]
  /\ UNCHANGED << main_vars, calls, returned, concept_ancestor, ancestor_query,
                  signos_pair, rosetta, rosetta_call, engines >>

\* A prior-infection or prior-colonization record that is transformed and
\* names no organism.
OrganismUnspecified ==
  /\ form_record.form_name \in { "infecciones_previas", "colonizaciones_previas" }
  /\ form_record.outcome # "empty"
  /\ form_record.fields.microorganism_infec_prev = NaN

\* What else makes such a record raise: no date to fall back on, a syndrome
\* or a resistance phenotype without a row in the rosetta file.
RaisesBeforeOrganism ==
  \/ form_record.fields.fecha_infeccion = NaN /\ form_record.fecha_ingreso = NULL
  \/ form_record.fields.sindrome_infeccioso = Unmapped

RaisesAfterOrganism ==
  form_record.fields.bmr_infec_previa = "1" /\ form_record.fields.feno = Unmapped

\* C15: a transformed prior-infection or prior-colonization record that
\* names no organism does not fail for it: the organism Observation is
\* written with the default concept 4259632 and, when the record completes,
\* the Relationship Builder links the condition (or carrier observation) to
\* that Observation, forward row and mirror.
C15_DefaultOrganism ==
  OrganismUnspecified =>
    LET w == form_record.writes IN
    /\ form_record.outcome = "raised" => (RaisesBeforeOrganism \/ RaisesAfterOrganism)
    /\ ~RaisesBeforeOrganism =>
         /\ Len(w) >= 4
         /\ w[4] = RecordWrite("observation", Fixed("4259632"), NaN, << 3 >>)
         /\ \A i \in 1..Len(w) : w[i].concept = Fixed("4259632") => i = 4
    /\ form_record.outcome = "loaded" =>
         /\ w[Len(w) - 1].table = "fact_relationship"
         /\ w[Len(w) - 1].refs = << 1, 4 >>
         /\ w[Len(w) - 1].concept[3] = "Has causative agent (SNOMED)"
         /\ w[Len(w)].table = "fact_relationship"
         /\ w[Len(w)].refs = << 4, 1 >>
         /\ w[Len(w)].concept[3] = "Causative agent of (SNOMED)"

\* A prior-infection record without organism, transformed to the end.
C15_Witness ==
  /\ OrganismUnspecified
  /\ form_record.form_name = "infecciones_previas"
  /\ form_record.outcome = "loaded"
  /\ form_record.writes[4].concept = Fixed("4259632")

\* ---------------------------------------------------------------------
\* The antimicrobial treatment forms.

\* atc2rxnorm_dict: the cross-reference table of the translator.
atc2rxnorm_dict == << [ atc_code |-> "J01CA04", conceptId |-> "1713332" ] >>

\* The drug codes the forms may carry: one with a row in atc2rxnorm_dict,
\* one without.
AtcCodes == { "J01CA04", "J01XX99" }

\* get_rxnorm_from_atc: the concept of the first row of the code, raised
\* when there is none.
get_rxnorm_from_atc(atc_code) ==
  LET df == SelectSeq(atc2rxnorm_dict, LAMBDA row : row.atc_code = atc_code)
  IN  IF df # << >>
        THEN [ raised |-> FALSE, concept |-> Fixed(df[1].conceptId) ]
        ELSE [ raised |-> TRUE, concept |-> Fixed("") ]

\* Mutant of drug_concept_id: a code without a row falls back on the
\* default concept.
drug_concept_id_fallback(antimicrobiano) ==
  IF antimicrobiano # NaN /\ ~get_rxnorm_from_atc(antimicrobiano).raised
    THEN get_rxnorm_from_atc(antimicrobiano)
    ELSE [ raised |-> FALSE, concept |-> default_antimicrobiano ]

\* The "drug_concept_id" parameter of both forms: the translation of the
\* code when the column holds one, the default concept when it is empty.
drug_concept_id(antimicrobiano) ==
  IF antimicrobiano # NaN
    THEN get_rxnorm_from_atc(antimicrobiano)
    ELSE [ raised |-> FALSE, concept |-> default_antimicrobiano ]

\* datetime.strptime(..., "%Y-%m-%d").date() as a day number (days from
\* 2023-01-01), over the dates the records carry.
strptime(date_string) ==
  CASE date_string = "2024-01-15" -> 379
    [] date_string = "2024-02-20" -> 415

\* int() over the day counts the records carry.
int(digits) ==
  CASE digits = "0" -> 0
    [] digits = "1" -> 1
    [] digits = "7" -> 7

\* The admission dates the store may hold for a subject: none, or
\* 2024-03-01 as a day number.
FechasIngreso == { NULL, 425 }

\* A row of drug_exposure.
DrugWrite(concept, source_value, start_date, end_date, visit_occurrence_id) ==
  [ table |-> "drug_exposure", concept |-> concept, source_value |-> source_value,
    refs |-> << visit_occurrence_id >>, start_date |-> start_date,
    end_date |-> end_date ]

\* The records of tratamiento_antibiotico_previo and tratamiento_empirico;
\* antimicrobiano is antimicrobiano_previo or antimicrobiano_empirico, otros
\* the fields of the export that the code does not read
\* (via_administ_antib_prev in tratamiento_antibiotico_previo).
TratamientoFields(form_name) ==
  { f \in [ antimicrobiano : { NaN } \cup AtcCodes,
            fecha_administracion_antib : { NaN, "2024-01-15" },
            dias_trat_antimicrobiano : { NaN, "0", "7" },
            otros : { NaN, "1" } ] :
      form_name = "tratamiento_empirico" =>
        /\ f.fecha_administracion_antib = NaN
        /\ f.dias_trat_antimicrobiano = NaN }

TratamientoColumns(form_name) ==
  IF form_name = "tratamiento_empirico"
    THEN << "antimicrobiano", "otros" >>
    ELSE << "antimicrobiano", "fecha_administracion_antib",
            "dias_trat_antimicrobiano", "otros" >>

\* Mutant of tratamiento_antibiotico_previo_record: the end date counts the
\* declared days from the day after the start.
tratamiento_antibiotico_previo_record_plus_d(fields, fecha_ingreso) ==
  IF fields.fecha_administracion_antib = NaN /\ fecha_ingreso = NULL
    THEN [ writes |-> << >>, raised |-> TRUE ]
  ELSE
    LET fecha_tratamiento ==
          IF fields.fecha_administracion_antib = NaN
            THEN fecha_ingreso - 90
            ELSE strptime(fields.fecha_administracion_antib)
        fecha_finalizacion_tratamiento ==
          IF fields.dias_trat_antimicrobiano # NaN
            THEN fecha_tratamiento + int(fields.dias_trat_antimicrobiano)
            ELSE fecha_tratamiento + 29
        drug == drug_concept_id(fields.antimicrobiano)
    IN  IF drug.raised
          THEN [ writes |-> << >>, raised |-> TRUE ]
          ELSE [ writes |-> << DrugWrite(drug.concept, fields.antimicrobiano,
                                         fecha_tratamiento,
                                         fecha_finalizacion_tratamiento, NULL) >>,
                 raised |-> FALSE ]

\* process_form_tratamiento_antibiotico_previo: [writes, raised].
tratamiento_antibiotico_previo_record(fields, fecha_ingreso) ==
  IF fields.fecha_administracion_antib = NaN /\ fecha_ingreso = NULL
    THEN [ writes |-> << >>, raised |-> TRUE ]
  ELSE
    LET fecha_tratamiento ==
          IF fields.fecha_administracion_antib = NaN
            THEN fecha_ingreso - 90
            ELSE strptime(fields.fecha_administracion_antib)
        fecha_finalizacion_tratamiento ==
          IF fields.dias_trat_antimicrobiano # NaN
            THEN fecha_tratamiento + int(fields.dias_trat_antimicrobiano) - 1
            ELSE fecha_tratamiento + 29
        drug == drug_concept_id(fields.antimicrobiano)
    IN  IF drug.raised
          THEN [ writes |-> << >>, raised |-> TRUE ]
          ELSE [ writes |-> << DrugWrite(drug.concept, fields.antimicrobiano,
                                         fecha_tratamiento,
                                         fecha_finalizacion_tratamiento, NULL) >>,
                 raised |-> FALSE ]

\* process_form_tratamiento_empirico: [writes, raised].  visit_id and
\* episode_id are what the store holds for the subject, NULL when it holds
\* none.
tratamiento_empirico_record(fields, fecha_ingreso, visit_id, episode_id) ==
  LET drug == drug_concept_id(fields.antimicrobiano)
      atb_id == 1
  IN  IF drug.raised
        THEN [ writes |-> << >>, raised |-> TRUE ]
        ELSE [ writes |-> << DrugWrite(drug.concept, fields.antimicrobiano,
                                       fecha_ingreso, fecha_ingreso, visit_id),
                             RecordWrite("episode_event", Fixed("1147096"), NaN,
                                         << episode_id, atb_id >>) >>,
               raised |-> FALSE ]

\* One treatment record through the row loop.
TransformTratamiento ==
  /\ \E form_name \in { "tratamiento_antibiotico_previo", "tratamiento_empirico" },
        fecha_ingreso \in FechasIngreso, visit_id \in { NULL, 1 },
        episode_id \in { NULL, 1 } :
       \E fields \in TratamientoFields(form_name) :
         LET r == IF form_name = "tratamiento_empirico"
                    THEN tratamiento_empirico_record(fields, fecha_ingreso,
                                                           visit_id, episode_id)
                    ELSE tratamiento_antibiotico_previo_record(fields,
                                                                     fecha_ingreso)
             skipped == skips_row(form_name, TratamientoColumns(form_name), fields)
         IN  form_record' =
               [ form_name |-> form_name, fields |-> fields,
                 fecha_ingreso |-> fecha_ingreso,
                 outcome |-> IF skipped THEN "empty"
                             ELSE IF r.raised THEN "raised" ELSE "loaded",
                 writes |-> IF skipped THEN << >> ELSE r.writes ]
  /\ UNCHANGED << main_vars, calls, returned, concept_ancestor, ancestor_query,
                  signos_pair, rosetta, rosetta_call, engines >>

\* A treatment record that is transformed.
TratamientoTransformed ==
  /\ form_record.form_name \in { "tratamiento_antibiotico_previo",
                                 "tratamiento_empirico" }
  /\ form_record.outcome # "empty"

\* Its drug code has no row in the translator's table.
CodeWithoutRow ==
  /\ form_record.fields.antimicrobiano # NaN
  /\ \A i \in 1..Len(atc2rxnorm_dict) :
       atc2rxnorm_dict[i].atc_code # form_record.fields.antimicrobiano

\* The Drug Exposures written for the record.
DrugExposures ==
  { i \in 1..Len(form_record.writes) : form_record.writes[i].table = "drug_exposure" }

\* A prior-treatment record with no date of its own and no admission date in
\* the store.
NoStartDate ==
  /\ form_record.form_name = "tratamiento_antibiotico_previo"
  /\ form_record.fields.fecha_administracion_antib = NaN
  /\ form_record.fecha_ingreso = NULL

\* C16 as stated: a treatment record whose drug code has no row in the
\* translator is not aborted, its Drug Exposure is written with the default
\* antiinfective concept.
C16_FallbackOnMissingMapping ==
  (TratamientoTransformed /\ CodeWithoutRow /\ ~NoStartDate) =>
    /\ form_record.outcome = "loaded"
    /\ \E i \in DrugExposures : form_record.writes[i].concept = default_antimicrobiano

\* C16, amended: the default antiinfective concept is used when the drug
\* code column is empty; a code without a row in the translator ends the
\* record's transformation with the error, no Drug Exposure and no Episode
\* Event written; a prior-treatment record with no date to start from fails
\* before any write.
C16_DefaultOnlyWhenEmpty ==
  TratamientoTransformed =>
    /\ (form_record.fields.antimicrobiano = NaN /\ ~NoStartDate) =>
         /\ form_record.outcome = "loaded"
         /\ Cardinality(DrugExposures) = 1
         /\ \A i \in DrugExposures :
              form_record.writes[i].concept = default_antimicrobiano
    /\ CodeWithoutRow =>
         /\ form_record.outcome = "raised"
         /\ form_record.writes = << >>
    /\ NoStartDate =>
         /\ form_record.outcome = "raised"
         /\ form_record.writes = << >>
    /\ (form_record.fields.antimicrobiano # NaN /\ ~CodeWithoutRow /\ ~NoStartDate) =>
         /\ form_record.outcome = "loaded"
         /\ Cardinality(DrugExposures) = 1
         /\ \A i \in DrugExposures :
              form_record.writes[i].concept # default_antimicrobiano

\* An empirical-treatment record whose code has no row, aborted.
C16_Witness ==
  /\ TratamientoTransformed
  /\ CodeWithoutRow
  /\ form_record.form_name = "tratamiento_empirico"
  /\ form_record.outcome = "raised"

\* A prior-treatment record with no drug code, loaded with the default.
C16_WitnessDefault ==
  /\ TratamientoTransformed
  /\ form_record.form_name = "tratamiento_antibiotico_previo"
  /\ form_record.fields.antimicrobiano = NaN
  /\ form_record.outcome = "loaded"

\* The record is of the prior-treatment form.
PriorTreatment == form_record.form_name = "tratamiento_antibiotico_previo"

CultivoFields(form_name) ==
  { f \in [ id_cultivo : { NaN, "H1" },
            hemo_positivo_si_no : { NaN, "0", "1" },
            tipo_cultivo : { NaN, "3", Unmapped },
            microorganismo : { NaN, "112283007" },
            bmr_etiologia : { NaN, "0", "1" },
            feno : { NaN, "2", Unmapped } ] :
      IF form_name = "hemocultivo_de_urgencias"
        THEN f.tipo_cultivo = NaN
        ELSE f.hemo_positivo_si_no = NaN }

CultivoColumns(form_name) ==
  IF form_name = "hemocultivo_de_urgencias"
    THEN << "id_cultivo", "hemo_positivo_si_no", "microorganismo",
            "bmr_etiologia", "feno" >>
    ELSE << "id_cultivo", "tipo_cultivo", "microorganismo", "bmr_etiologia",
            "feno" >>

\* A rosetta lookup under a value of the record: raised for NaN, which no
\* row of the file carries after fillna, and for a value without a row.
lookup_raises(value) == value \in { NaN, Unmapped }

\* The writes from the organism Observation on, shared by both forms: the
\* organism and its Episode Event, then, for a multiresistant organism, the
\* resistance Observation, its Episode Event, and the phenotype Measurement
\* with its Episode Event.  first_id is the position of the first of them,
\* [writes, raised].
cultivo_organism_writes(fields, episode_id, culture_id, first_id) ==
  LET moo_in_culture_id == first_id
      bmr_id == first_id + 2
      feno_id == first_id + 4
      organism ==
        << RecordWrite("observation", moo_concept_id(fields.microorganismo),
                       fields.microorganismo, << culture_id >>),
           RecordWrite("episode_event", Fixed("1147167"), NaN,
                       << episode_id, moo_in_culture_id >>) >>
      bmr ==
        << RecordWrite("observation", Resolved("bmr_etiologia", "1"), "1",
                       << moo_in_culture_id >>),
           RecordWrite("episode_event", Fixed("1147167"), NaN,
                       << episode_id, bmr_id >>) >>
      feno ==
        << RecordWrite("measurement", Resolved("fenotipo_resistencia", fields.feno),
                       fields.feno, << bmr_id >>),
           RecordWrite("episode_event", Fixed("1147140"), NaN,
                       << episode_id, feno_id >>) >>
  IN  IF fields.bmr_etiologia # "1"
        THEN [ writes |-> organism, raised |-> FALSE ]
      ELSE IF fields.feno = NaN
        THEN [ writes |-> organism \o bmr, raised |-> FALSE ]
      ELSE IF fields.feno = Unmapped
        THEN [ writes |-> organism \o bmr, raised |-> TRUE ]
        ELSE [ writes |-> organism \o bmr \o feno, raised |-> FALSE ]

\* Mutant of hemocultivo_record: the organism is written whatever the
\* result of the culture.
hemocultivo_record_ungated(fields, episode_id) ==
  LET specimen_id == 1
      culture_id == 3
      specimen ==
        << RecordWrite("specimen", Resolved("especimen_hemocultivo_urg", "NONE"),
                       NaN, << >>),
           RecordWrite("episode_event", Fixed("1147051"), NaN,
                       << episode_id, specimen_id >>) >>
      culture ==
        << RecordWrite("measurement", Resolved("hemo_positivo_si_no", "NONE"),
                       fields.hemo_positivo_si_no, << specimen_id >>),
           RecordWrite("culture_origin", Fixed("culture_measurement_id"),
                       fields.id_cultivo, << culture_id >>),
           RecordWrite("episode_event", Fixed("1147140"), NaN,
                       << episode_id, culture_id >>) >>
      rest == cultivo_organism_writes(fields, episode_id, culture_id, 6)
  IN  IF lookup_raises(fields.hemo_positivo_si_no)
        THEN [ writes |-> specimen, raised |-> TRUE ]
        ELSE [ writes |-> specimen \o culture \o rest.writes, raised |-> rest.raised ]

\* process_form_hemocultivo: [writes, raised].  episode_id is what
\* get_episode_id returns for the subject, NULL when it has no episode.
hemocultivo_record(fields, episode_id) ==
  LET specimen_id == 1
      culture_id == 3
      specimen ==
        << RecordWrite("specimen", Resolved("especimen_hemocultivo_urg", "NONE"),
                       NaN, << >>),
           RecordWrite("episode_event", Fixed("1147051"), NaN,
                       << episode_id, specimen_id >>) >>
      culture ==
        << RecordWrite("measurement", Resolved("hemo_positivo_si_no", "NONE"),
                       fields.hemo_positivo_si_no, << specimen_id >>),
           RecordWrite("culture_origin", Fixed("culture_measurement_id"),
                       fields.id_cultivo, << culture_id >>),
           RecordWrite("episode_event", Fixed("1147140"), NaN,
                       << episode_id, culture_id >>) >>
      rest == cultivo_organism_writes(fields, episode_id, culture_id, 6)
  IN  IF lookup_raises(fields.hemo_positivo_si_no)
        THEN [ writes |-> specimen, raised |-> TRUE ]
      ELSE IF fields.hemo_positivo_si_no = "1"
        THEN [ writes |-> specimen \o culture \o rest.writes, raised |-> rest.raised ]
        ELSE [ writes |-> specimen \o culture, raised |-> FALSE ]

\* process_form_otros_cultivos: [writes, raised].
otros_cultivos_record(fields, episode_id) ==
  LET specimen_id == 1
      culture_id == 3
      specimen ==
        << RecordWrite("specimen",
                       Resolved("especimen_otros_cultivos_urg", fields.tipo_cultivo),
                       NaN, << >>),
           RecordWrite("episode_event", Fixed("1147051"), NaN,
                       << episode_id, specimen_id >>) >>
      culture ==
        << RecordWrite("measurement", Resolved("tipo_cultivo", fields.tipo_cultivo),
                       fields.tipo_cultivo, << specimen_id >>),
           RecordWrite("episode_event", Fixed("1147140"), NaN,
                       << episode_id, culture_id >>) >>
      rest == cultivo_organism_writes(fields, episode_id, culture_id, 5)
  IN  IF lookup_raises(fields.tipo_cultivo)
        THEN [ writes |-> << >>, raised |-> TRUE ]
        ELSE [ writes |-> specimen \o culture \o rest.writes, raised |-> rest.raised ]

\* One culture record through the row loop.
TransformCultivo ==
  /\ \E form_name \in { "hemocultivo_de_urgencias", "otros_cultivos_en_urgencias" },
        episode_id \in { NULL, 1 } :
       \E fields \in CultivoFields(form_name) :
         LET r == IF form_name = "hemocultivo_de_urgencias"
                    THEN hemocultivo_record(fields, episode_id)
                    ELSE otros_cultivos_record(fields, episode_id)
             skipped == skips_row(form_name, CultivoColumns(form_name), fields)
         IN  form_record' =
               [ form_name |-> form_name, fields |-> fields,
                 episode_id |-> episode_id,
                 outcome |-> IF skipped THEN "empty"
                             ELSE IF r.raised THEN "raised" ELSE "loaded",
                 writes |-> IF skipped THEN << >> ELSE r.writes ]
  /\ UNCHANGED << main_vars, calls, returned, concept_ancestor, ancestor_query,
                  signos_pair, rosetta, rosetta_call, engines >>

\* A culture record that went through its transformation to the end.
CultivoLoaded ==
  /\ form_record.form_name \in { "hemocultivo_de_urgencias",
                                 "otros_cultivos_en_urgencias" }
  /\ form_record.outcome = "loaded"

RecordRows(table) ==
  { i \in 1..Len(form_record.writes) : form_record.writes[i].table = table }

\* The Specimen, the Episode Event that refers to it, and the culture
\* Measurement on the Specimen.
CultureWritten ==
  /\ Cardinality(RecordRows("specimen")) = 1
  /\ \A s \in RecordRows("specimen") :
       /\ \E e \in RecordRows("episode_event") :
            form_record.writes[e].refs = << form_record.episode_id, s >>
       /\ \E m \in RecordRows("measurement") : form_record.writes[m].refs = << s >>

\* Whether an organism Observation was written.
OrganismWritten ==
  \E o \in RecordRows("observation") :
    form_record.writes[o].source_value = form_record.fields.microorganismo

\* The rows that hang from the organism: everything after the Episode Event
\* of the culture Measurement.
AfterCulture ==
  { i \in 1..Len(form_record.writes) :
      /\ form_record.writes[i].table \in { "observation", "measurement", "episode_event" }
      /\ \E c \in RecordRows("measurement") :
           /\ form_record.writes[c].refs = << 1 >>
           /\ i > c + 1
           /\ form_record.writes[i].table = "episode_event" =>
                form_record.writes[i].refs # << form_record.episode_id, c >> }

PacienteFields ==
  [ sexo : { NaN, "1", Unmapped },
    fecha_nacimiento : { NaN, "1950-05-02" },
    fecha_ingreso_urgencias : { NaN, "2024-03-01" },
    codigo_postal : { NaN, "28001" },
    paciente_residencia : { NaN, "1", Unmapped },
    mujer_gestante : { NaN, "1" } ]

PacienteColumns ==
  << "sexo", "fecha_nacimiento", "fecha_ingreso_urgencias", "codigo_postal",
     "paciente_residencia", "mujer_gestante" >>

\* process_form_paciente: [writes, raised].  The Person, the Visit, the
\* Observation of the admission date, an Observation for each of
\* codigo_postal, paciente_residencia and mujer_gestante that is not empty,
\* and the observation period.  visit_id is what load_visit_ocurrence_table
\* hands back.
paciente_record(fields) ==
  LET visit_id == load_visit_ocurrence_table(<< >>, 1, TRUE).visit_id
      observation(variable, value) ==
        RecordWrite("observation", Resolved(variable, "NONE"), value, << visit_id >>)
      head ==
        << RecordWrite("person", Resolved("sexo", fields.sexo), fields.sexo, << >>),
           RecordWrite("visit_occurrence", Fixed("9203"),
                       fields.fecha_ingreso_urgencias, << >>),
           observation("fecha_ingreso_urgencias", fields.fecha_ingreso_urgencias) >>
      postal ==
        IF fields.codigo_postal # NaN
          THEN << observation("codigo_postal", fields.codigo_postal) >>
          ELSE << >>
      residencia ==
        IF fields.paciente_residencia # NaN
          THEN << observation("paciente_residencia", fields.paciente_residencia) >>
          ELSE << >>
      gestante ==
        IF fields.mujer_gestante # NaN
          THEN << observation("mujer_gestante", fields.mujer_gestante) >>
          ELSE << >>
      period ==
        << RecordWrite("observation_period", Fixed("32809"),
                       fields.fecha_ingreso_urgencias, << >>) >>
  IN  IF fields.fecha_nacimiento = NaN \/ lookup_raises(fields.sexo)
        THEN [ writes |-> << >>, raised |-> TRUE ]
      ELSE IF fields.paciente_residencia = Unmapped
        THEN [ writes |-> head \o postal, raised |-> TRUE ]
        ELSE [ writes |-> head \o postal \o residencia \o gestante \o period,
               raised |-> FALSE ]

\* One intake record through the row loop.
TransformPaciente ==
  /\ \E fields \in PacienteFields :
       LET r == paciente_record(fields)
           skipped == skips_row("paciente", PacienteColumns, fields)
       IN  form_record' =
             [ form_name |-> "paciente", fields |-> fields,
               outcome |-> IF skipped THEN "empty"
                           ELSE IF r.raised THEN "raised" ELSE "loaded",
               writes |-> IF skipped THEN << >> ELSE r.writes ]
  /\ UNCHANGED << main_vars, calls, returned, concept_ancestor, ancestor_query,
                  signos_pair, rosetta, rosetta_call, engines >>

\* C26: the Observations of an intake record carry the identifier of the
\* Visit that the record has just written, never null.
C26_ObservationsCarryVisit ==
  (form_record.form_name = "paciente" /\ form_record.outcome = "loaded") =>
    \A o \in RecordRows("observation") :
      \E v \in RecordRows("visit_occurrence") :
        form_record.writes[o].refs = << v >>

InitRecords ==
  /\ db = EmptyDb
  /\ pc = "export"
  /\ form_idx = 1
  /\ rows_left = 0
  /\ exported = 0
  /\ current_record_id = NULL
  /\ processed = FALSE
  /\ runs = 1
  /\ visited = NoRow
  /\ failed = {}
  /\ calls = << >>
  /\ returned = [ s \in SourceIds |-> NULL ]
  /\ concept_ancestor = {}
  /\ ancestor_query = NoQuery
  /\ signos_pair = NoPair
  /\ form_record = NoRecord
  /\ rosetta = << >>
  /\ rosetta_call = NoLookup
  /\ engines = NoEngines

NextRecords ==
  \/ TransformSepsis
  \/ TransformPrevias
  \/ TransformTratamiento
  \/ TransformCultivo
  \/ TransformPaciente

SpecRecords == InitRecords /\ [][NextRecords]_vars

\* ---------------------------------------------------------------------
\* RosettaParser on its own.

MaxRosettaRows == 2

\* The rows the rosetta file may hold, as read_csv returns them: an empty
\* cell is NaN.  Two concepts, each with its code.
RosettaFileRows ==
  { row \in [ variable : { "foco", "sepsis" }, source_value : { NaN, "1" },
              branch : { "semantic_link", "value_link" },
              concept_id : { "4000001", "4000002" }, concept_code : { "A", "B" } ] :
      row.concept_code = "A" <=> row.concept_id = "4000001" }

\* DataFrame.fillna("NONE") on one cell and on one row.
fillna_cell(cell) == IF cell = NaN THEN "NONE" ELSE cell

fillna(row) ==
  [ variable |-> fillna_cell(row.variable),
    source_value |-> fillna_cell(row.source_value),
    branch |-> fillna_cell(row.branch),
    concept_id |-> fillna_cell(row.concept_id),
    concept_code |-> fillna_cell(row.concept_code) ]

\* RosettaParser.__init__: the file, read and filled.
RosettaTables ==
  { [ i \in 1..Len(file) |-> fillna(file[i]) ] :
      file \in UNION { [ 1..m -> RosettaFileRows ] : m \in 0..MaxRosettaRows } }

\* The positional arguments of a call: (variable, branch) or
\* (variable, branch, value).
LookupArgs ==
  { << variable, branch >> :
      variable \in { "foco", "sepsis" }, branch \in { "semantic_link", "value_link" } }
  \cup
  { << variable, branch, value >> :
      variable \in { "foco", "sepsis" }, branch \in { "semantic_link", "value_link" },
      value \in { "NONE", "1", "2" } }

\* The parameter value with its default.
value_or_default(args) == IF Len(args) >= 3 THEN args[3] ELSE "NONE"

\* The rows the boolean mask of both methods keeps, in table order.
rosetta_match(table, variable, branch, value) ==
  SelectSeq(table, LAMBDA row : /\ row.variable = variable
                                /\ row.source_value = value
                                /\ row.branch = branch)

\* Mutant of get_concept_id: the last matching row instead of the first.
get_concept_id_last(table, variable, branch, value) ==
  LET df == rosetta_match(table, variable, branch, value)
  IN  IF df # << >> THEN [ raised |-> FALSE, result |-> df[Len(df)].concept_id ]
      ELSE [ raised |-> TRUE, result |-> "" ]

\* RosettaParser.get_concept_id: [raised, result].
get_concept_id(table, variable, branch, value) ==
  LET df == rosetta_match(table, variable, branch, value)
  IN  IF df # << >> THEN [ raised |-> FALSE, result |-> df[1].concept_id ]
      ELSE [ raised |-> TRUE, result |-> "" ]

\* RosettaParser.get_concept_code: [raised, result].
get_concept_code(table, variable, branch, value) ==
  LET df == rosetta_match(table, variable, branch, value)
  IN  IF df # << >> THEN [ raised |-> FALSE, result |-> df[1].concept_code ]
      ELSE [ raised |-> TRUE, result |-> "" ]

InitRosetta ==
  /\ db = EmptyDb
  /\ pc = "export"
  /\ form_idx = 1
  /\ rows_left = 0
  /\ exported = 0
  /\ current_record_id = NULL
  /\ processed = FALSE
  /\ runs = 1
  /\ visited = NoRow
  /\ failed = {}
  /\ calls = << >>
  /\ returned = [ s \in SourceIds |-> NULL ]
  /\ concept_ancestor = {}
  /\ ancestor_query = NoQuery
  /\ signos_pair = NoPair
  /\ form_record = NoRecord
  /\ rosetta \in RosettaTables
  /\ rosetta_call = NoLookup
  /\ engines = NoEngines

\* One call of get_concept_id.
GetConceptId ==
  /\ \E args \in LookupArgs :
       LET value == value_or_default(args)
           r == get_concept_id(rosetta, args[1], args[2], value)
       IN  rosetta_call' =
             [ method |-> "get_concept_id", variable |-> args[1], branch |-> args[2],
               value |-> value, raised |-> r.raised, result |-> r.result ]
  /\ UNCHANGED << main_vars, calls, returned, concept_ancestor, ancestor_query,
                  signos_pair, form_record, rosetta, engines >>

\* One call of get_concept_code.
GetConceptCode ==
  /\ \E args \in LookupArgs :
       LET value == value_or_default(args)
           r == get_concept_code(rosetta, args[1], args[2], value)
       IN  rosetta_call' =
             [ method |-> "get_concept_code", variable |-> args[1], branch |-> args[2],
               value |-> value, raised |-> r.raised, result |-> r.result ]
  /\ UNCHANGED << main_vars, calls, returned, concept_ancestor, ancestor_query,
                  signos_pair, form_record, rosetta, engines >>

NextRosetta ==
  \/ GetConceptId
  \/ GetConceptCode

SpecRosetta == InitRosetta /\ [][NextRosetta]_vars

\* The positions of the table rows that carry the key of the last call.
MatchingRows ==
  { i \in 1..Len(rosetta) : /\ rosetta[i].variable = rosetta_call.variable
                            /\ rosetta[i].source_value = rosetta_call.value
                            /\ rosetta[i].branch = rosetta_call.branch }

FirstMatchingRow == CHOOSE i \in MatchingRows : \A j \in MatchingRows : i <= j

\* What the last call answered, against the table.
LookupAnswersFirstRow ==
  rosetta_call.method # "" =>
    /\ rosetta_call.raised <=> MatchingRows = {}
    /\ (MatchingRows # {} /\ rosetta_call.method = "get_concept_id") =>
         rosetta_call.result = rosetta[FirstMatchingRow].concept_id
    /\ (MatchingRows # {} /\ rosetta_call.method = "get_concept_code") =>
         rosetta_call.result = rosetta[FirstMatchingRow].concept_code

\* C17: a lookup answers with the concept of the first table row whose
\* variable, source value and branch equal the arguments (the value being
\* "NONE" when it is not given), raises exactly when no row matches, and
\* changes neither the table nor the store.
C17_PureLookup ==
  /\ []LookupAnswersFirstRow
  /\ [][rosetta' = rosetta /\ db' = db]_vars

\* A call answered from a table with two rows under its key and different
\* concepts.
C17_Witness ==
  /\ rosetta_call.method = "get_concept_id"
  /\ ~rosetta_call.raised
  /\ Cardinality(MatchingRows) = 2
  /\ rosetta[1].concept_id # rosetta[2].concept_id
  /\ rosetta_call.result = rosetta[1].concept_id

\* ---------------------------------------------------------------------
\* Claims about the passes that end a run.

\* The pairs a report names.
NamedBy(report) ==
  { p \in SourceIds \X { ETL_forms[n] : n \in 1..Len(ETL_forms) } :
      /\ p[1] \in DOMAIN report
      /\ \E k \in 1..Len(report[p[1]]) : report[p[1]][k][1] = p[2] }

InvalidRows(tracking) ==
  { i \in 1..Len(tracking) : tracking[i].quality_check = "invalid" }

TrackerKeys(tracking) ==
  [ i \in 1..Len(tracking) |->
      << tracking[i].source_person_id, tracking[i].form_name >> ]

\* The step is update_quality_check.
QualityStep == pc = "quality" /\ pc' = "relationship"

\* C18: update_quality_check sets quality_check to invalid for exactly the
\* tracker rows of the pairs its report names; it adds and removes no tracker
\* row, writes no fact and leaves is_form_processed as it was for every
\* pair, so that a row of an invalid pair is still never handed to
\* load_data; and no step of a run takes a flag back from invalid.
C18_QualityFrame ==
  [][ /\ QualityStep =>
           /\ TrackerKeys(db'.etl_tracking) = TrackerKeys(db.etl_tracking)
           /\ FactTables(db') = FactTables(db)
           /\ db'.person_origin = db.person_origin
           /\ \E report \in InvalidReports :
                InvalidRows(db'.etl_tracking) =
                  InvalidRows(db.etl_tracking) \cup
                  { i \in 1..Len(db.etl_tracking) :
                      TrackerKeys(db.etl_tracking)[i] \in NamedBy(report) }
           /\ \A s \in SourceIds, n \in 1..Len(ETL_forms) :
                is_form_processed(db'.etl_tracking, s, ETL_forms[n])
                  = is_form_processed(db.etl_tracking, s, ETL_forms[n])
      /\ Transformed =>
           \A i \in InvalidRows(db.etl_tracking) :
             TrackerKeys(db.etl_tracking)[i]
               # << visited'.record_id, visited'.form_name >>
      /\ Len(db'.etl_tracking) >= Len(db.etl_tracking)
      /\ \A i \in 1..Len(db.etl_tracking) :
           /\ TrackerKeys(db'.etl_tracking)[i] = TrackerKeys(db.etl_tracking)[i]
           /\ i \in InvalidRows(db.etl_tracking) => i \in InvalidRows(db'.etl_tracking)
    ]_vars

\* A later run meets a row of a pair that the validation pass marked invalid
\* and skips it, while another tracker row has kept its flag.
C18_Witness ==
  /\ runs = 2
  /\ visited.outcome = "already_processed"
  /\ \E i \in InvalidRows(db.etl_tracking) :
       TrackerKeys(db.etl_tracking)[i] = << visited.record_id, visited.form_name >>
  /\ \E i \in 1..Len(db.etl_tracking) : i \notin InvalidRows(db.etl_tracking)

\* The step is the pass populate_fact_relationship_table that ends a run.
RelationshipStep == pc = "relationship" /\ pc' = "finished"

\* The persons with tracker rows for sepsis and tratamiento_empirico and with
\* an episode.
EpisodeSubjects(d) ==
  { d.person_origin[p].person_id : p \in
      { p \in 1..Len(d.person_origin) :
          /\ HasTrackerRow(d.etl_tracking, d.person_origin[p].source_person_id,
                           "sepsis")
          /\ HasTrackerRow(d.etl_tracking, d.person_origin[p].source_person_id,
                           "tratamiento_empirico")
          /\ \E e \in 1..Len(d.episode) :
               d.episode[e].person_id = d.person_origin[p].person_id } }

\* The fact event_id is referenced, under the role field_concept, by an
\* episode event of an episode of the person.
EpisodeEventOf(d, person_id, field_concept, event_id) ==
  \E i \in 1..Len(d.episode_event) :
    /\ d.episode_event[i].event_id = event_id
    /\ d.episode_event[i].episode_event_field_concept_id = field_concept
    /\ d.episode_event[i].episode_id # NULL
    /\ d.episode[d.episode_event[i].episode_id].person_id = person_id

\* The forward rows "Condition Treated with Drug" the pass links person_id
\* with: both facts there, both of the person, both found through the roles
\* of the person's episode.
LinksEpisodeOf(d, row, person_id) ==
  /\ row.fact_id_1 # NULL
  /\ row.fact_id_2 # NULL
  /\ d.condition_occurrence[row.fact_id_1].person_id = person_id
  /\ d.drug_exposure[row.fact_id_2].person_id = person_id
  /\ EpisodeEventOf(d, person_id, 1147129, row.fact_id_1)
  /\ EpisodeEventOf(d, person_id, 1147096, row.fact_id_2)

\* C19: the pass that ends a run links one pair of facts for each person
\* with tracker rows for sepsis and tratamiento_empirico and with an episode,
\* and for nobody else; the pair is the Condition under role 1147129 and the
\* Drug Exposure under role 1147096 of the person's episode, both present
\* and both of that person.
C19_EpisodeLinks ==
  [][ RelationshipStep =>
        LET added == (Len(db.fact_relationship) + 1)..Len(db'.fact_relationship)
            forward == { k \in added :
                           db'.fact_relationship[k].relationship_concept_id
                             = "Treated with" }
        IN  /\ Cardinality(forward) = Cardinality(EpisodeSubjects(db))
            /\ Cardinality(added) = 2 * Cardinality(forward)
            /\ \A k \in forward :
                 \E person_id \in EpisodeSubjects(db) :
                   LinksEpisodeOf(db, db'.fact_relationship[k], person_id)
    ]_vars

\* ---------------------------------------------------------------------
\* The order of the forms.

\* The place of a form in the iteration of main().
FormPosition(form_name) ==
  CHOOSE n \in 1..Len(ETL_forms_dict) : ETL_forms_dict[n] = form_name

IntakeDependents == { "sintomas", "signos", "comorbilidad" }

FocusDependents ==
  { "tratamiento_empirico", "hemocultivo_de_urgencias",
    "otros_cultivos_en_urgencias" }

\* paciente stands ahead of the forms that read the visit and the admission
\* date, sepsis ahead of the forms that read the episode.
DependentsLater ==
  /\ \A form_name \in IntakeDependents :
       FormPosition("paciente") < FormPosition(form_name)
  /\ \A form_name \in FocusDependents :
       FormPosition("sepsis") < FormPosition(form_name)

\* C20: within a run the forms are gone through in one fixed order: once a
\* record of sintomas, signos or comorbilidad has been visited, no record
\* of paciente is visited in that run any more, and once a record of
\* tratamiento_empirico or of a culture form has been visited, no record of
\* sepsis is; so no record of a dependent form is transformed in a run
\* ahead of its subject's paciente or sepsis record of that run.
C20_FixedSequence ==
  /\ []DependentsLater
  /\ \A r \in 1..MaxRuns :
       [](( runs = r /\ visited.form_name \in IntakeDependents ) =>
            [](runs = r => visited.form_name # "paciente"))
  /\ \A r \in 1..MaxRuns :
       [](( runs = r /\ visited.form_name \in FocusDependents ) =>
            [](runs = r => visited.form_name # "sepsis"))

\* A record of tratamiento_empirico transformed in the first run for a
\* subject whose sepsis record of that run has left an episode.
C20_Witness ==
  /\ runs = 1
  /\ visited.form_name = "tratamiento_empirico"
  /\ visited.outcome = "loaded"
  /\ \E p \in 1..Len(db.person_origin) :
       /\ db.person_origin[p].source_person_id = visited.record_id
       /\ get_episode_id(db.episode, db.person_origin[p].person_id) # NULL
       /\ HasTrackerRow(db.etl_tracking, visited.record_id, "sepsis")

\* ---------------------------------------------------------------------
\* The relationship pass over several runs.

\* The rows of the branch infectious_disease_episode that link two facts
\* that are both there.
EpisodeLinkRows ==
  { k \in 1..Len(db.fact_relationship) :
      /\ db.fact_relationship[k].relationship_concept_id \in { "Treated with", "Treats" }
      /\ db.fact_relationship[k].fact_id_1 # NULL
      /\ db.fact_relationship[k].fact_id_2 # NULL }

\* C27: whatever the number of runs, the store holds at most one symmetric
\* pair of infectious_disease_episode rows for a linked condition and drug:
\* no row of the pass is in the table twice.
C27_OnePairPerLink ==
  \A k \in EpisodeLinkRows : \A m \in EpisodeLinkRows :
    db.fact_relationship[k] = db.fact_relationship[m] => k = m

\* ---------------------------------------------------------------------
\* Episode events and their episodes.

\* The table in which an episode event's role finds its fact.
EventTable(d, field_concept) ==
  IF field_concept = 1147129 THEN d.condition_occurrence ELSE d.drug_exposure

\* C29: every episode event carries the id of an episode that exists and
\* belongs to the person of the fact the event refers to.
C29_EpisodeEventsHaveEpisode ==
  \A i \in 1..Len(db.episode_event) :
    LET event == db.episode_event[i]
    IN  /\ event.episode_id # NULL
        /\ event.episode_id \in 1..Len(db.episode)
        /\ event.event_id # NULL
        /\ db.episode[event.episode_id].person_id =
             EventTable(db, event.episode_event_field_concept_id)[event.event_id].person_id

\* ---------------------------------------------------------------------
\* The records of one form in any order.

\* One iteration of the row loop.
RowStep == pc = "rows" /\ rows_left' = rows_left - 1

\* The tracker rows of a pair.
TrackerRows(source_person_id, form_name) ==
  { i \in 1..Len(db.etl_tracking) :
      /\ db.etl_tracking[i].source_person_id = source_person_id
      /\ db.etl_tracking[i].form_name = form_name }

\* C28: in the first run on an empty store, where no pair has a tracker row
\* when the run starts, and as long as no transformation has failed, every
\* record that is not skipped as empty is transformed when the loop reaches
\* it, in whatever order the records of the subjects come; and no pair has
\* more than one tracker row.
C28_TransformedOnce ==
  /\ [][ (RowStep /\ runs = 1 /\ failed' = {}) =>
           visited'.outcome \in { "empty", "loaded" } ]_vars
  /\ []( (runs = 1 /\ failed = {}) =>
           \A s \in SourceIds : \A f \in 1..Len(ETL_forms) :
             Cardinality(TrackerRows(s, ETL_forms[f])) <= 1 )

\* ---------------------------------------------------------------------
\* One record with a failing write.

\* The statements that may fail while a record is transformed: none, or the
\* INSERT into one table.
WriteFailures ==
  { {} } \cup { { t } : t \in { "visit_occurrence", "condition_occurrence",
                               "observation", "drug_exposure", "episode",
                               "episode_event", "fact_relationship_1",
                               "etl_tracking" } }

\* The stores a record may meet: an empty one, and one in which the intake
\* and focus forms of the subject are loaded.
StoresBefore(record_id) ==
  LET complete == [ record_id |-> record_id, content |-> "complete" ]
      with_paciente == load_data(EmptyDb, "paciente", complete, {}).db
  IN  { EmptyDb, load_data(with_paciente, "sepsis", complete, {}).db }

\* The row loop over an export of one record, and the tracker update after
\* the loop, with the failing statements fails.
TransformWithFailure ==
  /\ \E f \in 1..Len(ETL_forms), record_id \in SourceIds, fails \in WriteFailures :
       \E data_row \in Rows(ETL_forms[f]), before \in StoresBefore(record_id) :
         LET form_name == ETL_forms[f]
             r == row_iteration(before, NULL, FALSE, form_name, data_row, fails)
             after ==
               IF r.current_record_id # NULL /\ r.processed
                 THEN [ r.db EXCEPT !.etl_tracking =
                          update_form_tracking(@, r.current_record_id, form_name,
                                               "etl_tracking" \notin fails) ]
                 ELSE r.db
         IN  /\ data_row.record_id = record_id
             /\ form_record' =
                  [ form_name |-> form_name, data_row |-> data_row,
                    fails |-> fails, before |-> before, store |-> after,
                    outcome |-> r.outcome, writes |-> << >> ]
  /\ UNCHANGED << main_vars, calls, returned, concept_ancestor, ancestor_query,
                  signos_pair, rosetta, rosetta_call, engines >>

SpecWrites == InitRecords /\ [][TransformWithFailure]_vars

\* The rows the record added to a table.
NewRows(table) ==
  { form_record.store[table][i] :
      i \in (Len(form_record.before[table]) + 1)..Len(form_record.store[table]) }

\* The record is of one of the forms, and the INSERT into table failed.
FailedIn(forms, table) ==
  /\ form_record.form_name \in forms
  /\ form_record.outcome = "loaded"
  /\ table \in form_record.fails

\* C22: a write that fails while a record is transformed is not raised: the
\* outcome of the record is what it is without the failure; the rows that
\* refer to the row that was not written are written with a null in its
\* place; and the pair of a record that loads gets its tracker row.
C22_WriteFailureNotRaised ==
  form_record.form_name # "" =>
    /\ form_record.outcome =
         row_iteration(form_record.before, NULL, FALSE, form_record.form_name,
                       form_record.data_row, {}).outcome
    /\ FailedIn({ "sepsis" }, "condition_occurrence") =>
         /\ NewRows("episode_event") # {}
         /\ \A e \in NewRows("episode_event") : e.event_id = NULL /\ e.episode_id # NULL
    /\ FailedIn({ "sepsis" }, "episode") =>
         /\ NewRows("episode_event") # {}
         /\ \A e \in NewRows("episode_event") : e.episode_id = NULL /\ e.event_id # NULL
    /\ FailedIn({ "tratamiento_empirico" }, "drug_exposure") =>
         /\ NewRows("episode_event") # {}
         /\ \A e \in NewRows("episode_event") : e.event_id = NULL
    /\ FailedIn({ "infecciones_previas" }, "condition_occurrence") =>
         /\ NewRows("fact_relationship") # {}
         /\ \A r \in NewRows("fact_relationship") :
              NULL \in { r.fact_id_1, r.fact_id_2 }
    /\ FailedIn({ "infecciones_previas", "colonizaciones_previas" }, "observation") =>
         /\ NewRows("fact_relationship") # {}
         /\ \A r \in NewRows("fact_relationship") :
              NULL \in { r.fact_id_1, r.fact_id_2 }
    /\ (form_record.outcome = "loaded" /\ "etl_tracking" \notin form_record.fails) =>
         is_form_processed(form_record.store.etl_tracking,
                           form_record.data_row.record_id, form_record.form_name)

\* A focus record whose Condition was not written: loaded, its episode event
\* refers to no event, and the pair is marked.
C22_Witness ==
  /\ FailedIn({ "sepsis" }, "condition_occurrence")
  /\ \E e \in NewRows("episode_event") : e.event_id = NULL
  /\ is_form_processed(form_record.store.etl_tracking,
                       form_record.data_row.record_id, "sepsis")

\* ---------------------------------------------------------------------
\* Two instances of main() on one store.

NumEngines == 2
MaxEngineRows == 2

Engines == 1..NumEngines

\* The form both instances are at.
EngineForm == "paciente"

\* Mutant of allocate: the maximum itself is handed out.
allocate_the_maximum(max_person_id) ==
  IF max_person_id # NULL THEN max_person_id ELSE 1

\* The person_id populate_person_origin_table inserts and returns for the
\* result of SELECT MAX(person_id).
allocate(max_person_id) ==
  IF max_person_id # NULL THEN max_person_id + 1 ELSE 1

InitEngines ==
  /\ db = EmptyDb
  /\ pc = "export"
  /\ form_idx = 1
  /\ rows_left = 0
  /\ exported = 0
  /\ current_record_id = NULL
  /\ processed = FALSE
  /\ runs = 1
  /\ visited = NoRow
  /\ failed = {}
  /\ calls = << >>
  /\ returned = [ s \in SourceIds |-> NULL ]
  /\ concept_ancestor = {}
  /\ ancestor_query = NoQuery
  /\ signos_pair = NoPair
  /\ form_record = NoRecord
  /\ rosetta = << >>
  /\ rosetta_call = NoLookup
  /\ engines = [ e \in Engines |-> IdleEngine ]

\* The instance e goes from statement "from" to statement "to", with the
\* fields changed given by the record changes.
EngineGoes(e, from, to, changes) ==
  /\ engines[e].pc = from
  /\ engines' =
       [ engines EXCEPT ![e] =
           [ k \in DOMAIN engines[e] |->
               IF k = "pc" THEN to
               ELSE IF k \in DOMAIN changes THEN changes[k] ELSE engines[e][k] ] ]

EngineFrame ==
  UNCHANGED << pc, form_idx, rows_left, exported, current_record_id, processed,
               runs, visited, failed, calls, returned, concept_ancestor,
               ancestor_query, signos_pair, form_record, rosetta, rosetta_call >>

\* The row loop of instance e reaches its next row.
EngineNextRow(e) ==
  /\ engines[e].rows < MaxEngineRows
  /\ \E record_id \in SourceIds :
       EngineGoes(e, "row", "is_form_processed",
                  [ record_id |-> record_id, rows |-> engines[e].rows + 1 ])
  /\ UNCHANGED db
  /\ EngineFrame

\* is_form_processed: a pair with a tracker row is skipped.
EngineCheck(e) ==
  /\ IF is_form_processed(db.etl_tracking, engines[e].record_id, EngineForm)
       THEN EngineGoes(e, "is_form_processed", "row", << >>)
       ELSE EngineGoes(e, "is_form_processed", "is_person_in_db", << >>)
  /\ UNCHANGED db
  /\ EngineFrame

\* populate_person_origin_table up to its branch: is_person_in_db and, for a
\* source id that has a row, the SELECT of its person_id.
EngineLookup(e) ==
  /\ IF is_person_in_db(db.person_origin, engines[e].record_id)
       THEN EngineGoes(e, "is_person_in_db", "load",
                       [ person_id |-> SelectPersonId(db.person_origin,
                                                      engines[e].record_id) ])
       ELSE EngineGoes(e, "is_person_in_db", "select_max", << >>)
  /\ UNCHANGED db
  /\ EngineFrame

\* SELECT MAX(person_id) FROM management.person_origin.
EngineSelectMax(e) ==
  /\ EngineGoes(e, "select_max", "insert",
                [ max_person_id |-> MaxPersonId(db.person_origin) ])
  /\ UNCHANGED db
  /\ EngineFrame

\* INSERT INTO management.person_origin, with the maximum read before.
EngineInsert(e) ==
  /\ EngineGoes(e, "insert", "load",
                [ person_id |-> allocate(engines[e].max_person_id) ])
  /\ db' = [ db EXCEPT !.person_origin =
               Insert(@, [ source_person_id |-> engines[e].record_id,
                           person_id |-> allocate(engines[e].max_person_id) ],
                      TRUE) ]
  /\ EngineFrame

\* The transformation of the record.
EngineLoad(e) ==
  /\ EngineGoes(e, "load", "update_form_tracking",
                [ loaded |-> engines[e].loaded \cup { engines[e].record_id } ])
  /\ db' = process_form_paciente(db, "complete", engines[e].person_id, {}).db
  /\ EngineFrame

\* update_form_tracking, when the loop leaves the subject.
EngineMark(e) ==
  /\ EngineGoes(e, "update_form_tracking", "row", << >>)
  /\ db' = [ db EXCEPT !.etl_tracking =
               update_form_tracking(@, engines[e].record_id, EngineForm, TRUE) ]
  /\ EngineFrame

NextEngines ==
  \E e \in Engines :
    \/ EngineNextRow(e)
    \/ EngineCheck(e)
    \/ EngineLookup(e)
    \/ EngineSelectMax(e)
    \/ EngineInsert(e)
    \/ EngineLoad(e)
    \/ EngineMark(e)

SpecEngines == InitEngines /\ [][NextEngines]_vars

\* Two rows of person_origin for different source ids with one person_id.
SharedPersonId(po) ==
  \E i \in 1..Len(po) : \E j \in 1..Len(po) :
    /\ po[i].source_person_id # po[j].source_person_id
    /\ po[i].person_id = po[j].person_id

\* C21: the registry and the tracker are safe only as long as the
\* instances do not interleave: an INSERT whose maximum is still the
\* maximum of the table gives the source id a person_id that no row holds,
\* and a check made once the pair has its tracker row skips the record.
\* Two source ids with one person_id, and a pair transformed by both
\* instances, come from a maximum read, or a check made, before the other
\* instance's write; the witness is a state that holds both.
C21_UnsafeOnlyWhenInterleaved ==
  [][ \A e \in Engines :
        /\ ( /\ engines[e].pc = "insert"
             /\ engines'[e].pc = "load"
             /\ engines[e].max_person_id = MaxPersonId(db.person_origin) ) =>
             \A i \in 1..Len(db.person_origin) :
               db.person_origin[i].person_id # engines'[e].person_id
        /\ ( /\ engines[e].pc = "is_form_processed"
             /\ engines'[e].pc # "is_form_processed"
             /\ is_form_processed(db.etl_tracking, engines[e].record_id, EngineForm) ) =>
             /\ engines'[e].pc = "row"
             /\ engines'[e].loaded = engines[e].loaded
    ]_vars

\* Two source ids hold one person_id, and both instances have transformed
\* the record of one subject.
C21_Witness ==
  /\ SharedPersonId(db.person_origin)
  /\ engines[1].loaded \cap engines[2].loaded # {}

====
